---- MODULE Spec2Model ----
(***************************************************************************)
(* A model of the traveler app of src/src/App.jsx: the itinerary store,   *)
(* the expense ledger with its filters, the payer registry and the two    *)
(* modal forms, as the state machine the React event handlers drive.      *)
(*                                                                         *)
(* Representation of JavaScript values:                                    *)
(*   - a date string 'YYYY-MM-DD' is the tuple <<year, month, day>> and a  *)
(*     time string 'HH:MM' the tuple <<hour, minute>>.  The fields are     *)
(*     zero padded and of fixed width, so comparing the strings character  *)
(*     by character (localeCompare, <, >=) is comparing the tuples field   *)
(*     by field.  The empty string '' is the empty tuple <<>>; so is an    *)
(*     absent (undefined) date, which the code only ever tests for         *)
(*     truthiness.                                                         *)
(*   - a text (payer name, location) is a tuple of chunks: a chunk is      *)
(*     either one blank " " or a word without blanks.  trim() drops the    *)
(*     blank chunks at both ends.                                          *)
(*   - a coordinate is an integer number of 1/10000 degrees; null is 0     *)
(*     (no entry of SIMULATED_GEO_DATA has a zero coordinate and the code  *)
(*     tests coordinates for truthiness only).                             *)
(*   - an activity id 'a<n>' is the number n; Date.now() is the counter    *)
(*     clock, which grows with every reading.                              *)
(***************************************************************************)
EXTENDS Integers, Sequences, FiniteSets, TLC

VARIABLES
    itinerary,              \* App state itinerary: sequence of day buckets
    selectedItineraryDate,  \* App state selectedItineraryDate
    activeTab,              \* App state activeTab
    modalOpen,              \* App state modalOpen
    modalType,              \* App state modalType
    editItem,               \* App state editItem
    activityForm,           \* state of the mounted ActivityForm
    geocode,                \* the running call of ActivityForm.handleGeocode
    expenses,               \* App state expenses: the ledger
    payers,                 \* App state payers: the registry
    storage,                \* localStorage item 'payers'
    filterStart,            \* App state filterStart
    filterEnd,              \* App state filterEnd
    filterPayer,            \* App state filterPayer
    popoverOpen,            \* App state popoverOpen
    expenseForm,            \* state of the mounted ExpenseForm
    payerManager,           \* state of the mounted PayerManagementModal
    clock,                  \* number of Date.now() readings so far
    ops,                    \* number of store mutations so far (bounded)
    lastOp                  \* history: the store handler the last step ran, with its
                            \* arguments ("ui" for a step that only touches view state)

vars == <<itinerary, selectedItineraryDate, activeTab, modalOpen, modalType,
          editItem, activityForm, geocode, expenses, payers, storage, filterStart,
          filterEnd, filterPayer, popoverOpen, expenseForm, payerManager,
          clock, ops, lastOp>>

\* the state the itinerary handlers never touch
ledgerVars == <<expenses, payers, storage, filterStart, filterEnd, filterPayer,
                popoverOpen, expenseForm, payerManager>>

----------------------------------------------------------------------------
(* Bounds of the model *)

\* store mutations (saves and confirmed deletes) explored from the seed state
MaxOps == 2

----------------------------------------------------------------------------
(* Values *)

NoDate == <<>>
NoTime == <<>>
Null == [null |-> TRUE]
NullCoord == 0

D04 == <<2025, 11, 4>>
D05 == <<2025, 11, 5>>
D06 == <<2025, 11, 6>>

\* the days the user picks in the week calendar and in the date inputs
Dates == {D04, D05, D06}
\* what the user enters in the form's time input ('' clears it)
TimeInputs == {NoTime, <<12, 0>>}
\* what the user enters in the form's description input
DescInputs == {"", "Lunch"}
Tabs == {"itinerary", "expenses", "map"}

\* useState default of the activity form's time, '10:00'
DefaultTime == <<10, 0>>

\* initialItinerary; its activities carry no date field
initialItinerary ==
    << [date |-> D05, activities |-> <<
          [id |-> 1, date |-> NoDate, time |-> <<9, 0>>, description |-> "TPE departure",
           location |-> <<"TaoyuanAirport">>, lat |-> 250797, lng |-> 1212342],
          [id |-> 2, date |-> NoDate, time |-> <<12, 0>>, description |-> "Check in",
           location |-> <<"TaipeiStation">>, lat |-> 250478, lng |-> 1215170],
          [id |-> 3, date |-> NoDate, time |-> <<19, 0>>, description |-> "Night market",
           location |-> <<"ShilinNightMarket">>, lat |-> 250878, lng |-> 1215241] >>],
       [date |-> D06, activities |-> <<
          [id |-> 4, date |-> NoDate, time |-> <<9, 30>>, description |-> "Museum",
           location |-> <<"PalaceMuseum">>, lat |-> 251024, lng |-> 1215485],
          [id |-> 5, date |-> NoDate, time |-> <<13, 0>>, description |-> "Shopping",
           location |-> <<"Xinyi">>, lat |-> 250339, lng |-> 1215645],
          [id |-> 6, date |-> NoDate, time |-> <<18, 30>>, description |-> "Dinner",
           location |-> <<"Taipei101">>, lat |-> 250339, lng |-> 1215645] >>] >>

----------------------------------------------------------------------------
(* String comparison and the sorts *)

\* String.prototype.localeCompare on dates and on times: -1, 0 or 1
RECURSIVE localeCompare(_, _)
localeCompare(a, b) ==
    IF a = <<>> /\ b = <<>> THEN 0
    ELSE IF a = <<>> THEN -1
    ELSE IF b = <<>> THEN 1
    ELSE IF Head(a) < Head(b) THEN -1
    ELSE IF Head(a) > Head(b) THEN 1
    ELSE localeCompare(Tail(a), Tail(b))

\* one step of the stable sort: a goes behind every entry that is not later
RECURSIVE InsertByTime(_, _)
InsertByTime(sorted, a) ==
    IF sorted = <<>> THEN <<a>>
    ELSE IF localeCompare(a.time, Head(sorted).time) < 0 THEN <<a>> \o sorted
    ELSE <<Head(sorted)>> \o InsertByTime(Tail(sorted), a)

SortByTimeOmitted(acts) == acts

\* activities.sort((a,b) => a.time.localeCompare(b.time)); Array sort is stable
RECURSIVE SortByTime(_)
SortByTime(acts) ==
    IF acts = <<>> THEN <<>>
    ELSE InsertByTime(SortByTime(SubSeq(acts, 1, Len(acts) - 1)), acts[Len(acts)])

RECURSIVE InsertByDate(_, _)
InsertByDate(sorted, day) ==
    IF sorted = <<>> THEN <<day>>
    ELSE IF localeCompare(day.date, Head(sorted).date) < 0 THEN <<day>> \o sorted
    ELSE <<Head(sorted)>> \o InsertByDate(Tail(sorted), day)

SortDaysOmitted(days) == days

\* days.sort((a, b) => a.date.localeCompare(b.date))
RECURSIVE SortDays(_)
SortDays(days) ==
    IF days = <<>> THEN <<>>
    ELSE InsertByDate(SortDays(SubSeq(days, 1, Len(days) - 1)), days[Len(days)])

----------------------------------------------------------------------------
(* The itinerary store *)

\* Array.prototype.findIndex over the buckets by date; 0 stands for -1
findIndex(days, date) ==
    IF \E i \in DOMAIN days : days[i].date = date
    THEN CHOOSE i \in DOMAIN days :
            /\ days[i].date = date
            /\ \A j \in DOMAIN days : days[j].date = date => i <= j
    ELSE 0

\* const { originalDate, ...activityWithoutOriginalDate } = activity
activityWithoutOriginalDate(activity) ==
    [id |-> activity.id, date |-> activity.date, time |-> activity.time,
     description |-> activity.description, location |-> activity.location,
     lat |-> activity.lat, lng |-> activity.lng]

KeepAllDays(days) == days

\* .filter(day => day.activities.length > 0)
RemoveEmptyDays(days) == SelectSeq(days, LAMBDA day : Len(day.activities) > 0)

\* prev.map(day => day.date === date ? {...day, activities: without id} : day)
\*     .filter(day => day.activities.length > 0)
RemoveFromDay(prev, id, date) ==
    RemoveEmptyDays(
        [i \in DOMAIN prev |->
            IF prev[i].date = date
            THEN [prev[i] EXCEPT !.activities = SelectSeq(@, LAMBDA a : a.id # id)]
            ELSE prev[i]])

\* activities.map(a => a.id === activity.id ? stored : a)
ReplaceById(acts, stored) ==
    [k \in DOMAIN acts |-> IF acts[k].id = stored.id THEN stored ELSE acts[k]]

\* the updater that handleActivitySave hands to setItinerary
handleActivitySave(prev, activity, isEdit) ==
    LET stored == activityWithoutOriginalDate(activity) IN
    IF isEdit /\ activity.originalDate # NoDate /\ activity.originalDate # activity.date
    THEN \* the date was changed in edit mode
        LET newState == RemoveFromDay(prev, activity.id, activity.originalDate)
            newDayIndex == findIndex(newState, activity.date)
        IN  IF newDayIndex = 0
            THEN SortDays(Append(newState, [date |-> activity.date, activities |-> <<stored>>]))
            ELSE LET replaced == ReplaceById(newState[newDayIndex].activities, stored)
                     added == IF \E k \in DOMAIN replaced : replaced[k].id = activity.id
                              THEN replaced
                              ELSE Append(replaced, stored)
                 IN  [newState EXCEPT ![newDayIndex].activities = SortByTime(added)]
    ELSE \* simple add or edit
        LET dayIndex == findIndex(prev, activity.date) IN
        IF dayIndex = 0
        THEN SortDays(Append(prev, [date |-> activity.date, activities |-> <<stored>>]))
        ELSE LET updatedActivities ==
                     IF isEdit
                     THEN ReplaceById(prev[dayIndex].activities, stored)
                     ELSE Append(prev[dayIndex].activities, stored)
             IN  [prev EXCEPT ![dayIndex].activities = SortByTime(updatedActivities)]

\* the updater that handleActivityDelete hands to setItinerary
handleActivityDelete(prev, id, date) == RemoveFromDay(prev, id, date)

\* renderItinerary sorts the displayed day's activities array in place
renderItinerary(days, selected, tab) ==
    IF tab = "itinerary"
    THEN [i \in DOMAIN days |->
            IF i = findIndex(days, selected)
            THEN [days[i] EXCEPT !.activities = SortByTime(@)]
            ELSE days[i]]
    ELSE days

\* the activities listed for the selected date
displayed(days, selected) ==
    IF findIndex(days, selected) = 0 THEN <<>>
    ELSE days[findIndex(days, selected)].activities

----------------------------------------------------------------------------
(* The activity form *)

NoActivityForm ==
    [date |-> NoDate, time |-> NoTime, desc |-> "", location |-> <<>>,
     lat |-> NullCoord, lng |-> NullCoord, isGeocoding |-> FALSE, geocodeStatus |-> "null"]

\* the useState initialisers of ActivityForm and its mount effect
mountActivityForm(initialActivity, selectedDate) ==
    IF initialActivity = Null
    THEN [date |-> selectedDate, time |-> DefaultTime, desc |-> "", location |-> <<>>,
          lat |-> NullCoord, lng |-> NullCoord, isGeocoding |-> FALSE,
          geocodeStatus |-> "null"]
    ELSE [date |-> IF initialActivity.date # NoDate THEN initialActivity.date ELSE selectedDate,
          time |-> IF initialActivity.time # NoTime THEN initialActivity.time ELSE DefaultTime,
          desc |-> initialActivity.description,
          location |-> initialActivity.location,
          lat |-> initialActivity.lat,
          lng |-> initialActivity.lng,
          isGeocoding |-> FALSE,
          geocodeStatus |->
              IF initialActivity.lat # NullCoord /\ initialActivity.lng # NullCoord THEN "found"
              ELSE IF initialActivity.location # <<>> THEN "none"
              ELSE "null"]

----------------------------------------------------------------------------
(* The ledger, the registry and the filter: values *)

\* '我 (Me)': the name holds a blank
Me == <<"Wo", " ", "(Me)">>
John == <<"John">>
Jane == <<"Jane">>
Max == <<"Max">>

\* DEFAULT_PAYERS
DEFAULT_PAYERS == <<Me, John, Jane, Max>>

\* the wildcard value 'All' of filterPayer
All == <<"All">>

D07 == <<2025, 11, 7>>

\* initialExpenses; amount in 1/100 TWD, inputAmount in 1/1000 of the input currency
initialExpenses ==
    << [id |-> 1, date |-> D05, description |-> "HSR ticket", amount |-> 85000,
        inputAmount |-> 850000, inputCurrency |-> "TWD", payer |-> Me],
       [id |-> 2, date |-> D05, description |-> "Lunch pasta", amount |-> 32000,
        inputAmount |-> 320000, inputCurrency |-> "TWD", payer |-> John],
       [id |-> 3, date |-> D06, description |-> "Hotel", amount |-> 220000,
        inputAmount |-> 10000000, inputCurrency |-> "JPY", payer |-> Me],
       [id |-> 4, date |-> D06, description |-> "Souvenir", amount |-> 65000,
        inputAmount |-> 650000, inputCurrency |-> "TWD", payer |-> Jane] >>

NoExpenseForm ==
    [amount |-> <<>>, currency |-> "TWD", desc |-> "", date |-> NoDate, payer |-> <<>>,
     showPayerManager |-> FALSE]

NoPayerManager == [newPayer |-> <<>>, editing |-> FALSE, originalName |-> <<>>, newName |-> <<>>]

\* new Date().toISOString().slice(0, 10): the day the form is opened
Today == D07

\* payerList.includes(name)
includes(list, name) == \E i \in DOMAIN list : list[i] = name

\* payerList[0] || ''
firstOrEmpty(list) == IF list = <<>> THEN <<>> ELSE list[1]

validPayerUnchecked(payer, payerList) == payer

\* the effect of ExpenseForm that keeps the selected payer valid
validPayer(payer, payerList) ==
    IF includes(payerList, payer) THEN payer ELSE firstOrEmpty(payerList)

\* the useState initialisers of ExpenseForm, followed by its payer effect
mountExpenseForm(initialExpense, payerList) ==
    IF initialExpense = Null
    THEN [amount |-> <<>>, currency |-> "TWD", desc |-> "", date |-> Today,
          payer |-> validPayer(firstOrEmpty(payerList), payerList),
          showPayerManager |-> FALSE]
    ELSE [amount |-> <<initialExpense.inputAmount>>,
          currency |-> initialExpense.inputCurrency,
          desc |-> initialExpense.description,
          date |-> IF initialExpense.date # NoDate THEN initialExpense.date ELSE Today,
          payer |-> validPayer(IF initialExpense.payer # <<>> THEN initialExpense.payer
                               ELSE firstOrEmpty(payerList), payerList),
          showPayerManager |-> FALSE]

----------------------------------------------------------------------------
(* The call of handleGeocode: its loop variables and what it has done so far *)

maxRetries == 3
InitialDelay == 200

\* no call of handleGeocode is running or has run: phase is "idle", "attempt"
\* (a geocodeLocation promise is pending), "backoff" (the wait between attempts
\* is pending) or "done"; mounted tells whether the form that made the call is
\* still there; attempts, waits and edited record what happened during the call
NoGeocode ==
    [phase |-> "idle", i |-> 0, delay |-> 0, query |-> <<>>, attempts |-> 0,
     waits |-> <<>>, mounted |-> FALSE, edited |-> FALSE]

OrphanedKept(g) == g

\* the form of a pending call unmounts: the call goes on, its setters reach nothing
Orphaned(g) ==
    IF g.phase \in {"attempt", "backoff"} THEN [g EXCEPT !.mounted = FALSE] ELSE g

----------------------------------------------------------------------------
(* The initial state: the useState initialisers of App *)

(* The item of localStorage is a string: a sequence of tokens, each a chunk of
   a name or one of the characters [ ] , " \ that JSON gives a meaning to. *)

Quote == "\""
Backslash == "\\"

escapeOmitted(text) == text

\* the characters of a string as JSON.stringify writes them between the quotes:
\* a quote and a backslash get a backslash before them
RECURSIVE escape(_)
escape(text) ==
    IF text = <<>> THEN <<>>
    ELSE (IF text[1] \in {Quote, Backslash} THEN <<Backslash, text[1]>> ELSE <<text[1]>>)
         \o escape(Tail(text))

RECURSIVE stringifyElements(_)
stringifyElements(list) ==
    IF list = <<>> THEN <<>>
    ELSE <<Quote>> \o escape(list[1]) \o <<Quote>>
         \o (IF Len(list) > 1 THEN <<",">> ELSE <<>>) \o stringifyElements(Tail(list))

\* JSON.stringify of an array of strings
JSONstringify(list) == <<"[">> \o stringifyElements(list) \o <<"]">>

SyntaxError == [ok |-> FALSE, null |-> FALSE, value |-> <<>>]

\* JSON.parse from token i on, inside an array: where is "start" (after the
\* opening bracket), "value" (after a comma), "string" (inside a string, whose
\* chunks so far are cur) or "after" (after a string); acc holds the strings
\* read so far.  Blanks between the values are skipped.
RECURSIVE parseArray(_, _, _, _, _)
parseArray(s, i, where, cur, acc) ==
    IF i > Len(s) THEN SyntaxError
    ELSE LET t == s[i] IN
         CASE where = "string" ->
                 IF t = Quote THEN parseArray(s, i + 1, "after", <<>>, Append(acc, cur))
                 ELSE IF t = Backslash
                 THEN IF i < Len(s) /\ s[i + 1] \in {Quote, Backslash}
                      THEN parseArray(s, i + 2, "string", Append(cur, s[i + 1]), acc)
                      ELSE SyntaxError
                 ELSE parseArray(s, i + 1, "string", Append(cur, t), acc)
           [] where # "string" /\ t = " " -> parseArray(s, i + 1, where, cur, acc)
           [] where \in {"start", "value"} /\ t = Quote ->
                 parseArray(s, i + 1, "string", <<>>, acc)
           [] where \in {"start", "after"} /\ t = "]" ->
                 IF i = Len(s) THEN [ok |-> TRUE, null |-> FALSE, value |-> acc]
                 ELSE SyntaxError
           [] where = "after" /\ t = "," -> parseArray(s, i + 1, "value", <<>>, acc)
           [] OTHER -> SyntaxError

\* JSON.parse of a text that is null, an array of strings, or no JSON text
JSONparse(s) ==
    IF s = <<"null">> THEN [ok |-> TRUE, null |-> TRUE, value |-> <<>>]
    ELSE IF s # <<>> /\ s[1] = "[" THEN parseArray(s, 2, "start", <<>>, <<>>)
    ELSE SyntaxError

\* the initialiser of payers:
\* try { return JSON.parse(localStorage.getItem('payers')) || DEFAULT_PAYERS; }
\* catch { return DEFAULT_PAYERS; }   (getItem gives null when there is no item)
loadPayers(stored) ==
    IF ~stored.present THEN DEFAULT_PAYERS
    ELSE LET parsed == JSONparse(stored.value) IN
         IF ~parsed.ok \/ parsed.null THEN DEFAULT_PAYERS ELSE parsed.value

\* the item 'payers' of localStorage before the first visit
NotStored == [present |-> FALSE, value |-> <<>>]

InitFrom(stored) ==
    /\ itinerary = initialItinerary
    /\ selectedItineraryDate = initialItinerary[1].date
    /\ activeTab = "itinerary"
    /\ modalOpen = FALSE
    /\ modalType = "null"
    /\ editItem = Null
    /\ activityForm = NoActivityForm
    /\ geocode = NoGeocode
    /\ expenses = initialExpenses
    /\ payers = loadPayers(stored)
    /\ storage = stored
    /\ filterStart = NoDate
    /\ filterEnd = NoDate
    /\ filterPayer = All
    /\ popoverOpen = FALSE
    /\ expenseForm = NoExpenseForm
    /\ payerManager = NoPayerManager
    /\ clock = 0
    /\ ops = 0
    /\ lastOp = [kind |-> "init"]

\* the first visit
Init == InitFrom(NotStored)

\* the page is loaded again: every useState initialiser runs anew, pending
\* timers are gone, and localStorage is what the last visit left
Reload ==
    /\ itinerary' = initialItinerary
    /\ selectedItineraryDate' = initialItinerary[1].date
    /\ activeTab' = "itinerary"
    /\ modalOpen' = FALSE
    /\ modalType' = "null"
    /\ editItem' = Null
    /\ activityForm' = NoActivityForm
    /\ geocode' = NoGeocode
    /\ expenses' = initialExpenses
    /\ payers' = loadPayers(storage)
    /\ filterStart' = NoDate
    /\ filterEnd' = NoDate
    /\ filterPayer' = All
    /\ popoverOpen' = FALSE
    /\ expenseForm' = NoExpenseForm
    /\ payerManager' = NoPayerManager
    /\ lastOp' = [kind |-> "reload"]
    /\ UNCHANGED <<storage, clock, ops>>

----------------------------------------------------------------------------
(* Navigation and the modal *)

\* the id of an item made at clock reading n: it exceeds every seed id
NewId(n) == 1000 + n

\* NavBtn onClick; the open modal sheet covers the navigation bar
SetActiveTab(t) ==
    /\ ~modalOpen
    /\ activeTab' = t
    /\ itinerary' = renderItinerary(itinerary, selectedItineraryDate, t)
    /\ lastOp' = [kind |-> "ui"]
    /\ UNCHANGED <<selectedItineraryDate, modalOpen, modalType, editItem, activityForm,
                   clock, ops>>
    /\ UNCHANGED ledgerVars
    /\ UNCHANGED geocode

\* WeeklyCalendar onDateSelect = setSelectedItineraryDate
SelectItineraryDate(d) ==
    /\ ~modalOpen
    /\ activeTab = "itinerary"
    /\ selectedItineraryDate' = d
    /\ itinerary' = renderItinerary(itinerary, d, activeTab)
    /\ lastOp' = [kind |-> "ui"]
    /\ UNCHANGED <<activeTab, modalOpen, modalType, editItem, activityForm, clock, ops>>
    /\ UNCHANGED ledgerVars
    /\ UNCHANGED geocode

\* the floating action button: a fresh form of the active tab's kind
FabClick ==
    /\ ~modalOpen
    /\ activeTab # "map"
    /\ ops < MaxOps
    /\ editItem' = Null
    /\ modalType' = IF activeTab = "expenses" THEN "expense" ELSE "activity"
    /\ modalOpen' = TRUE
    /\ activityForm' = IF activeTab = "expenses" THEN NoActivityForm
                       ELSE mountActivityForm(Null, selectedItineraryDate)
    /\ expenseForm' = IF activeTab = "expenses" THEN mountExpenseForm(Null, payers)
                      ELSE NoExpenseForm
    /\ lastOp' = [kind |-> "ui"]
    /\ UNCHANGED <<itinerary, selectedItineraryDate, activeTab, clock, ops>>
    /\ UNCHANGED <<expenses, payers, storage, filterStart, filterEnd, filterPayer,
                   popoverOpen, payerManager>>
    /\ UNCHANGED geocode

\* handleEditActivity, for an activity of the displayed day
handleEditActivity(act) ==
    /\ ~modalOpen
    /\ activeTab = "itinerary"
    /\ ops < MaxOps
    /\ \E k \in DOMAIN displayed(itinerary, selectedItineraryDate) :
            displayed(itinerary, selectedItineraryDate)[k] = act
    /\ editItem' = [id |-> act.id, date |-> act.date, time |-> act.time,
                    description |-> act.description, location |-> act.location,
                    lat |-> act.lat, lng |-> act.lng,
                    originalDate |-> selectedItineraryDate]
    /\ modalType' = "activity"
    /\ modalOpen' = TRUE
    /\ activityForm' = mountActivityForm(act, selectedItineraryDate)
    /\ lastOp' = [kind |-> "ui"]
    /\ UNCHANGED <<itinerary, selectedItineraryDate, activeTab, clock, ops>>
    /\ UNCHANGED ledgerVars
    /\ UNCHANGED geocode

\* the close button of the sheet and its backdrop: setModalOpen(false);
\* the form unmounts and its state is gone.  The payer management overlay,
\* when shown, covers the sheet.
CloseModal ==
    /\ modalOpen
    /\ ~expenseForm.showPayerManager
    /\ modalOpen' = FALSE
    /\ activityForm' = NoActivityForm
    /\ expenseForm' = NoExpenseForm
    /\ payerManager' = NoPayerManager
    /\ lastOp' = [kind |-> "ui"]
    /\ UNCHANGED <<itinerary, selectedItineraryDate, activeTab, modalType, editItem,
                   clock, ops>>
    /\ UNCHANGED <<expenses, payers, storage, filterStart, filterEnd, filterPayer,
                   popoverOpen>>
    /\ geocode' = IF modalOpen' THEN geocode ELSE Orphaned(geocode)

----------------------------------------------------------------------------
(* The activity form's handlers *)

ActivityFormOpen == modalOpen /\ modalType = "activity"

\* date input onChange
SetActivityDate(d) ==
    /\ ActivityFormOpen
    /\ activityForm' = [activityForm EXCEPT !.date = d]
    /\ lastOp' = [kind |-> "ui"]
    /\ UNCHANGED <<itinerary, selectedItineraryDate, activeTab, modalOpen, modalType,
                   editItem, clock, ops>>
    /\ UNCHANGED ledgerVars
    /\ UNCHANGED geocode

\* time input onChange
SetActivityTime(t) ==
    /\ ActivityFormOpen
    /\ activityForm' = [activityForm EXCEPT !.time = t]
    /\ lastOp' = [kind |-> "ui"]
    /\ UNCHANGED <<itinerary, selectedItineraryDate, activeTab, modalOpen, modalType,
                   editItem, clock, ops>>
    /\ UNCHANGED ledgerVars
    /\ UNCHANGED geocode

\* description input onChange
SetActivityDesc(v) ==
    /\ ActivityFormOpen
    /\ activityForm' = [activityForm EXCEPT !.desc = v]
    /\ lastOp' = [kind |-> "ui"]
    /\ UNCHANGED <<itinerary, selectedItineraryDate, activeTab, modalOpen, modalType,
                   editItem, clock, ops>>
    /\ UNCHANGED ledgerVars
    /\ UNCHANGED geocode

\* the object ActivityForm.handleSubmit hands to onSave
submittedActivity ==
    [id |-> IF editItem # Null THEN editItem.id ELSE NewId(clock),
     date |-> activityForm.date,
     time |-> activityForm.time,
     description |-> activityForm.desc,
     location |-> activityForm.location,
     lat |-> activityForm.lat,
     lng |-> activityForm.lng,
     originalDate |-> IF editItem # Null THEN editItem.date ELSE NoDate]

\* the early return of ActivityForm.handleSubmit: !desc || !date || !time
activityFieldMissing(form) == form.desc = "" \/ form.date = NoDate \/ form.time = NoTime

\* ActivityForm.handleSubmit, and App.handleActivitySave when the fields are filled
ActivityHandleSubmit ==
    /\ ActivityFormOpen
    /\ IF activityFieldMissing(activityForm)
       THEN /\ lastOp' = [kind |-> "activitySubmitBlocked"]
            /\ UNCHANGED <<itinerary, selectedItineraryDate, activeTab, modalOpen,
                           modalType, editItem, activityForm, clock, ops>>
       ELSE LET activity == submittedActivity
                isEdit == editItem # Null
                tab == IF activity.lat # NullCoord /\ activity.lng # NullCoord
                       THEN "map" ELSE activeTab
            IN  /\ itinerary' = renderItinerary(
                                    handleActivitySave(itinerary, activity, isEdit),
                                    activity.date, tab)
                /\ modalOpen' = FALSE
                /\ selectedItineraryDate' = activity.date
                /\ activeTab' = tab
                /\ activityForm' = NoActivityForm
                /\ clock' = IF isEdit THEN clock ELSE clock + 1
                /\ ops' = ops + 1
                /\ lastOp' = [kind |-> "handleActivitySave", isEdit |-> isEdit,
                              id |-> activity.id, originalDate |-> activity.originalDate,
                              date |-> activity.date,
                              searching |-> activityForm.isGeocoding]
                /\ UNCHANGED <<modalType, editItem>>
    /\ UNCHANGED ledgerVars
    /\ geocode' = IF modalOpen' THEN geocode ELSE Orphaned(geocode)

\* ModalFormContent.handleDelete of an activity, and handleActivityDelete behind
\* window.confirm
ActivityDelete(confirmed) ==
    /\ ActivityFormOpen
    /\ editItem # Null
    /\ IF confirmed
       THEN /\ itinerary' = renderItinerary(
                                handleActivityDelete(itinerary, editItem.id,
                                    IF editItem.originalDate # NoDate
                                    THEN editItem.originalDate ELSE editItem.date),
                                selectedItineraryDate, activeTab)
            /\ modalOpen' = FALSE
            /\ activityForm' = NoActivityForm
            /\ ops' = ops + 1
       ELSE UNCHANGED <<itinerary, modalOpen, activityForm, ops>>
    /\ lastOp' = [kind |-> "handleActivityDelete", confirmed |-> confirmed,
                  id |-> editItem.id]
    /\ UNCHANGED <<selectedItineraryDate, activeTab, modalType, editItem, clock>>
    /\ UNCHANGED ledgerVars
    /\ geocode' = IF modalOpen' THEN geocode ELSE Orphaned(geocode)

----------------------------------------------------------------------------
(* The expense ledger: conversion, save, delete, filter and total *)

\* EXCHANGE_RATES, in 1/100 TWD per unit
EXCHANGE_RATES == [TWD |-> 100, USD |-> 3200, JPY |-> 22, EUR |-> 3500, CNY |-> 450]

\* CURRENCIES = Object.keys(EXCHANGE_RATES)
CURRENCIES == {"TWD", "USD", "JPY", "EUR", "CNY"}

(* JavaScript numbers are IEEE 754 binary64 values.  A positive number is a
   record [m, e] of value m * 2^e whose m has exactly MantissaBits bits; m is a
   natural number written as the sequence of its digits to the base Base, lowest
   digit first and no zero digit at the high end, so that <<>> is 0. *)

Base == 8192
DigitBits == 13
MantissaBits == 53

Zero == [m |-> <<>>, e |-> 0]

RECURSIVE BigStrip(_)
BigStrip(a) ==
    IF a # <<>> /\ a[Len(a)] = 0 THEN BigStrip(SubSeq(a, 1, Len(a) - 1)) ELSE a

RECURSIVE BigOfInt(_)
BigOfInt(n) == IF n = 0 THEN <<>> ELSE <<n % Base>> \o BigOfInt(n \div Base)

RECURSIVE BigToInt(_)
BigToInt(a) == IF a = <<>> THEN 0 ELSE a[1] + Base * BigToInt(Tail(a))

\* a * k + carry for a digit k
RECURSIVE BigMulSmall(_, _, _)
BigMulSmall(a, k, carry) ==
    IF a = <<>> THEN BigOfInt(carry)
    ELSE LET t == a[1] * k + carry
         IN  <<t % Base>> \o BigMulSmall(Tail(a), k, t \div Base)

RECURSIVE BigAdd(_, _, _)
BigAdd(a, b, carry) ==
    IF a = <<>> /\ b = <<>> THEN BigOfInt(carry)
    ELSE LET x == IF a = <<>> THEN 0 ELSE a[1]
             y == IF b = <<>> THEN 0 ELSE b[1]
             t == x + y + carry
         IN  <<t % Base>> \o BigAdd(IF a = <<>> THEN <<>> ELSE Tail(a),
                                    IF b = <<>> THEN <<>> ELSE Tail(b), t \div Base)

RECURSIVE BigMul(_, _)
BigMul(a, b) ==
    IF a = <<>> \/ b = <<>> THEN <<>>
    ELSE BigStrip(BigAdd(BigMulSmall(a, b[1], 0), <<0>> \o BigMul(a, Tail(b)), 0))

\* quotient (with zero digits at the high end) and remainder of a by a small d
RECURSIVE BigDivRem(_, _)
BigDivRem(a, d) ==
    IF a = <<>> THEN [q |-> <<>>, r |-> 0]
    ELSE LET hi == BigDivRem(Tail(a), d)
             t == hi.r * Base + a[1]
         IN  [q |-> <<t \div d>> \o hi.q, r |-> t % d]

\* a * 2^k
BigShl(a, k) ==
    IF a = <<>> THEN <<>>
    ELSE [i \in 1..(k \div DigitBits) |-> 0] \o BigMulSmall(a, 2^(k % DigitBits), 0)

\* floor(a / 2^k)
BigShr(a, k) ==
    IF k \div DigitBits >= Len(a) THEN <<>>
    ELSE BigStrip(BigDivRem(SubSeq(a, k \div DigitBits + 1, Len(a)), 2^(k % DigitBits)).q)

\* the number of bits of a
BigBits(a) ==
    IF a = <<>> THEN 0
    ELSE (Len(a) - 1) * DigitBits
         + (CHOOSE b \in 1..DigitBits : 2^(b-1) <= a[Len(a)] /\ a[Len(a)] < 2^b)

BigOdd(a) == a # <<>> /\ a[1] % 2 = 1

\* the binary64 value nearest to n * 2^e, or to a value just above n * 2^e when
\* inexact; ties go to the even mantissa
toDouble(n, e, inexact) ==
    LET bits == BigBits(n) IN
    IF bits <= MantissaBits
    THEN [m |-> BigShl(n, MantissaBits - bits), e |-> e - (MantissaBits - bits)]
    ELSE LET k == bits - MantissaBits
             q2 == BigShr(n, k - 1)
             q == BigShr(q2, 1)
             below == inexact \/ BigShl(q2, k - 1) # n
             up == BigOdd(q2) /\ (below \/ BigOdd(q))
             m == IF up THEN BigAdd(q, <<1>>, 0) ELSE q
         IN  IF BigBits(m) > MantissaBits
             THEN [m |-> BigShr(m, 1), e |-> e + k + 1]
             ELSE [m |-> m, e |-> e + k]

\* the value of a decimal numeral n / d, as a numeric literal or parseFloat gives it
decimalToDouble(n, d) ==
    IF n = 0 THEN Zero
    ELSE LET dr == BigDivRem(BigShl(BigOfInt(n), 70), d)
         IN  toDouble(BigStrip(dr.q), -70, dr.r # 0)

\* x * y of two numbers
times(x, y) ==
    IF x.m = <<>> \/ y.m = <<>> THEN Zero
    ELSE toDouble(BigMul(x.m, y.m), x.e + y.e, FALSE)

\* Math.floor, standing in for Math.round
MathFloor(x) ==
    IF x.m = <<>> THEN 0
    ELSE IF x.e >= 0 THEN BigToInt(BigShl(x.m, x.e))
    ELSE BigToInt(BigShr(x.m, -x.e))

\* Math.round: the nearest integer, a tie going up
MathRound(x) ==
    IF x.m = <<>> THEN 0
    ELSE IF x.e >= 0 THEN BigToInt(BigShl(x.m, x.e))
    ELSE BigToInt(BigShr(BigAdd(BigShr(x.m, -x.e - 1), <<1>>, 0), 1))

\* parseFloat of the amount input <<m>>, the numeral m/1000
parseFloat(amount) == decimalToDouble(amount[1], 1000)

\* Math.round(val * EXCHANGE_RATES[currency] * 100) for val the numeral m/1000
roundedHundredths(m, currency) ==
    MathRound(times(times(parseFloat(<<m>>),
                          decimalToDouble(EXCHANGE_RATES[currency], 100)),
                    decimalToDouble(100, 1)))

\* the amount typed into a form that is filled in by hand
FilledAmount == <<12345>>

\* the amounts that the forms of most behaviours hold (those of the initial
\* records and FilledAmount), with their conversions computed once
FrequentAmounts ==
    {initialExpenses[k].inputAmount : k \in DOMAIN initialExpenses} \cup {FilledAmount[1]}

FrequentConversions ==
    {<<m, c, roundedHundredths(m, c)>> : m \in FrequentAmounts, c \in CURRENCIES}

\* ExpenseForm.twdAmount: the amount input is '' (<<>>) or <<m>>;
\* Math.round(val * EXCHANGE_RATES[currency] * 100) / 100, as the count of 1/100
\* TWD whose division by 100 is the stored number
twdAmount(amount, currency) ==
    IF amount = <<>> THEN 0
    ELSE IF amount[1] \in FrequentAmounts
    THEN (CHOOSE t \in FrequentConversions : t[1] = amount[1] /\ t[2] = currency)[3]
    ELSE roundedHundredths(amount[1], currency)

\* one step of the stable sort by new Date(b.date) - new Date(a.date): e goes
\* behind every entry whose date is not earlier
RECURSIVE InsertByDateDesc(_, _)
InsertByDateDesc(sorted, e) ==
    IF sorted = <<>> THEN <<e>>
    ELSE IF localeCompare(e.date, Head(sorted).date) > 0 THEN <<e>> \o sorted
    ELSE <<Head(sorted)>> \o InsertByDateDesc(Tail(sorted), e)

SortByDateDescOmitted(exps) == exps

\* [...].sort((a,b) => new Date(b.date) - new Date(a.date)), on valid dates
RECURSIVE SortByDateDesc(_)
SortByDateDesc(exps) ==
    IF exps = <<>> THEN <<>>
    ELSE InsertByDateDesc(SortByDateDesc(SubSeq(exps, 1, Len(exps) - 1)), exps[Len(exps)])

\* the updater that handleExpenseSave hands to setExpenses
handleExpenseSave(prev, expense, isEdit) ==
    IF isEdit
    THEN [k \in DOMAIN prev |-> IF prev[k].id = expense.id THEN expense ELSE prev[k]]
    ELSE SortByDateDesc(Append(prev, expense))

\* the updater that handleExpenseDelete hands to setExpenses
handleExpenseDelete(prev, id) == SelectSeq(prev, LAMBDA e : e.id # id)

filteredExpensesEndExclusive(exps, fPayer, fStart, fEnd) ==
    SelectSeq(exps, LAMBDA e :
        /\ (fPayer = All \/ e.payer = fPayer)
        /\ (fStart = NoDate \/ localeCompare(e.date, fStart) >= 0)
        /\ (fEnd = NoDate \/ localeCompare(e.date, fEnd) < 0))

\* the memo filteredExpenses: string comparison of the dates
filteredExpenses(exps, fPayer, fStart, fEnd) ==
    SelectSeq(exps, LAMBDA e :
        /\ (fPayer = All \/ e.payer = fPayer)
        /\ (fStart = NoDate \/ localeCompare(e.date, fStart) >= 0)
        /\ (fEnd = NoDate \/ localeCompare(e.date, fEnd) <= 0))

\* filteredExpenses.reduce((sum, e) => sum + e.amount, 0)
RECURSIVE totalExpense(_)
totalExpense(list) ==
    IF list = <<>> THEN 0
    ELSE totalExpense(SubSeq(list, 1, Len(list) - 1)) + list[Len(list)].amount

\* what the expenses tab shows
shownExpenses == filteredExpenses(expenses, filterPayer, filterStart, filterEnd)

----------------------------------------------------------------------------
(* The payer registry *)

trimOmitted(text) == text

RECURSIVE trimStart(_)
trimStart(text) ==
    IF text # <<>> /\ Head(text) = " " THEN trimStart(Tail(text)) ELSE text

RECURSIVE trimEnd(_)
trimEnd(text) ==
    IF text # <<>> /\ text[Len(text)] = " "
    THEN trimEnd(SubSeq(text, 1, Len(text) - 1))
    ELSE text

\* String.prototype.trim
trim(text) == trimEnd(trimStart(text))

savePayersFilterFirst(newList, fPayer) ==
    IF fPayer # All /\ ~includes(newList, fPayer) THEN firstOrEmpty(newList) ELSE fPayer

savePayersFilterKept(newList, fPayer) == fPayer

\* App.savePayers: the value it leaves in the payer filter
savePayersFilter(newList, fPayer) ==
    IF fPayer # All /\ ~includes(newList, fPayer) THEN All ELSE fPayer

\* payerList.filter(p => p !== target)
withoutPayer(list, target) == SelectSeq(list, LAMBDA p : p # target)

\* payers.map(p => p === originalName ? newPayerName : p)
renamed(list, originalName, newPayerName) ==
    [k \in DOMAIN list |-> IF list[k] = originalName THEN newPayerName ELSE list[k]]

----------------------------------------------------------------------------
(* The expenses tab: filters and the list *)

\* the state the expense handlers never touch
itineraryVars == <<itinerary, selectedItineraryDate, activityForm, geocode>>

ExpensesTabFree == ~modalOpen /\ activeTab = "expenses"

\* the date filter bar's button: setPopoverOpen(!popoverOpen)
TogglePopover ==
    /\ ExpensesTabFree
    /\ popoverOpen' = ~popoverOpen
    /\ lastOp' = [kind |-> "ui"]
    /\ UNCHANGED <<activeTab, modalOpen, modalType, editItem, expenses, payers, storage,
                   filterStart, filterEnd, filterPayer, expenseForm, payerManager,
                   clock, ops>>
    /\ UNCHANGED itineraryVars

\* RangeCalendar onSelectDate
RangeSelectDate(d) ==
    /\ ExpensesTabFree
    /\ popoverOpen
    /\ IF filterStart = NoDate \/ (filterStart # NoDate /\ filterEnd # NoDate)
       THEN /\ filterStart' = d
            /\ filterEnd' = NoDate
            /\ UNCHANGED popoverOpen
       ELSE IF localeCompare(d, filterStart) < 0
            THEN /\ filterStart' = d
                 /\ filterEnd' = NoDate
                 /\ UNCHANGED popoverOpen
            ELSE /\ filterEnd' = d
                 /\ popoverOpen' = FALSE
                 /\ UNCHANGED filterStart
    /\ lastOp' = [kind |-> "ui"]
    /\ UNCHANGED <<activeTab, modalOpen, modalType, editItem, expenses, payers, storage,
                   filterPayer, expenseForm, payerManager, clock, ops>>
    /\ UNCHANGED itineraryVars

\* the X of the date filter bar
ClearDateFilter ==
    /\ ExpensesTabFree
    /\ filterStart # NoDate
    /\ filterStart' = NoDate
    /\ filterEnd' = NoDate
    /\ lastOp' = [kind |-> "ui"]
    /\ UNCHANGED <<activeTab, modalOpen, modalType, editItem, expenses, payers, storage,
                   filterPayer, popoverOpen, expenseForm, payerManager, clock, ops>>
    /\ UNCHANGED itineraryVars

\* the wildcard chip of the payer filter
SetFilterAll ==
    /\ ExpensesTabFree
    /\ filterPayer' = All
    /\ lastOp' = [kind |-> "setFilterAll"]
    /\ UNCHANGED <<activeTab, modalOpen, modalType, editItem, expenses, payers, storage,
                   filterStart, filterEnd, popoverOpen, expenseForm, payerManager,
                   clock, ops>>
    /\ UNCHANGED itineraryVars

\* the payer filter's chip of a registry entry
SetFilterPayer(p) ==
    /\ ExpensesTabFree
    /\ includes(payers, p)
    /\ filterPayer' = p
    /\ lastOp' = [kind |-> "setFilterPayer", chip |-> p]
    /\ UNCHANGED <<activeTab, modalOpen, modalType, editItem, expenses, payers, storage,
                   filterStart, filterEnd, popoverOpen, expenseForm, payerManager,
                   clock, ops>>
    /\ UNCHANGED itineraryVars

\* ExpenseItem onEdit, for a record of the shown list
OpenEditExpense(e) ==
    /\ ExpensesTabFree
    /\ ops < MaxOps
    /\ \E k \in DOMAIN shownExpenses : shownExpenses[k] = e
    /\ editItem' = e
    /\ modalType' = "expense"
    /\ modalOpen' = TRUE
    /\ expenseForm' = mountExpenseForm(e, payers)
    /\ lastOp' = [kind |-> "ui"]
    /\ UNCHANGED <<activeTab, expenses, payers, storage, filterStart, filterEnd,
                   filterPayer, popoverOpen, payerManager, clock, ops>>
    /\ UNCHANGED itineraryVars

----------------------------------------------------------------------------
(* The expense form's handlers *)

ExpenseFormOpen == modalOpen /\ modalType = "expense" /\ ~expenseForm.showPayerManager

\* an input of the expense form changes one field of its state
SetExpenseField(form) ==
    /\ ExpenseFormOpen
    /\ ops < MaxOps
    /\ expenseForm' = form
    /\ lastOp' = [kind |-> "ui"]
    /\ UNCHANGED <<activeTab, modalOpen, modalType, editItem, expenses, payers, storage,
                   filterStart, filterEnd, filterPayer, popoverOpen, payerManager,
                   clock, ops>>
    /\ UNCHANGED itineraryVars

\* amount input onChange
SetExpenseAmount(a) == SetExpenseField([expenseForm EXCEPT !.amount = a])

\* currency select onChange
SetExpenseCurrency(c) == SetExpenseField([expenseForm EXCEPT !.currency = c])

\* description input onChange
SetExpenseDesc(v) == SetExpenseField([expenseForm EXCEPT !.desc = v])

\* date input onChange
SetExpenseDate(d) == SetExpenseField([expenseForm EXCEPT !.date = d])

\* the payer chips of the form, one per registry entry
SetExpensePayer(p) ==
    /\ includes(payers, p)
    /\ SetExpenseField([expenseForm EXCEPT !.payer = p])

\* the manage-list button: setShowPayerManager(true); the overlay mounts
OpenPayerManager == SetExpenseField([expenseForm EXCEPT !.showPayerManager = TRUE])

\* the object ExpenseForm.handleSubmit hands to onSave
submittedExpense ==
    [id |-> IF editItem # Null THEN editItem.id ELSE NewId(clock),
     date |-> expenseForm.date,
     description |-> expenseForm.desc,
     amount |-> twdAmount(expenseForm.amount, expenseForm.currency),
     inputAmount |-> expenseForm.amount[1],
     inputCurrency |-> expenseForm.currency,
     payer |-> expenseForm.payer]

expenseFieldMissingAmountOnly(form) == form.amount = <<>>

\* the early return of ExpenseForm.handleSubmit: !amount || !desc
expenseFieldMissing(form) == form.amount = <<>> \/ form.desc = ""

\* ExpenseForm.handleSubmit, and App.handleExpenseSave when the fields are filled
ExpenseHandleSubmit ==
    /\ ExpenseFormOpen
    /\ IF expenseFieldMissing(expenseForm)
       THEN /\ lastOp' = [kind |-> "expenseSubmitBlocked"]
            /\ UNCHANGED <<expenses, modalOpen, expenseForm, clock, ops>>
       ELSE /\ ops < MaxOps
            /\ expenses' = handleExpenseSave(expenses, submittedExpense, editItem # Null)
            /\ modalOpen' = FALSE
            /\ expenseForm' = NoExpenseForm
            /\ clock' = IF editItem # Null THEN clock ELSE clock + 1
            /\ ops' = ops + 1
            /\ lastOp' = [kind |-> "handleExpenseSave", isEdit |-> editItem # Null,
                          id |-> submittedExpense.id]
    /\ UNCHANGED <<activeTab, modalType, editItem, payers, storage, filterStart,
                   filterEnd, filterPayer, popoverOpen, payerManager>>
    /\ UNCHANGED itineraryVars

\* ModalFormContent.handleDelete of an expense, and handleExpenseDelete behind
\* window.confirm
ExpenseDelete(confirmed) ==
    /\ ExpenseFormOpen
    /\ editItem # Null
    /\ IF confirmed
       THEN /\ ops < MaxOps
            /\ expenses' = handleExpenseDelete(expenses, editItem.id)
            /\ modalOpen' = FALSE
            /\ expenseForm' = NoExpenseForm
            /\ ops' = ops + 1
       ELSE UNCHANGED <<expenses, modalOpen, expenseForm, ops>>
    /\ lastOp' = [kind |-> "handleExpenseDelete", confirmed |-> confirmed,
                  id |-> editItem.id]
    /\ UNCHANGED <<activeTab, modalType, editItem, payers, storage, filterStart,
                   filterEnd, filterPayer, popoverOpen, payerManager, clock>>
    /\ UNCHANGED itineraryVars

----------------------------------------------------------------------------
(* The payer management overlay *)

PayerManagerOpen == modalOpen /\ modalType = "expense" /\ expenseForm.showPayerManager

\* an event of the overlay that changes only its own state
SetPayerManager(pm) ==
    /\ PayerManagerOpen
    /\ ops < MaxOps
    /\ payerManager' = pm
    /\ lastOp' = [kind |-> "ui"]
    /\ UNCHANGED <<activeTab, modalOpen, modalType, editItem, expenses, payers, storage,
                   filterStart, filterEnd, filterPayer, popoverOpen, expenseForm,
                   clock, ops>>
    /\ UNCHANGED itineraryVars

\* onClose: setShowPayerManager(false); the overlay unmounts
ClosePayerManager ==
    /\ PayerManagerOpen
    /\ expenseForm' = [expenseForm EXCEPT !.showPayerManager = FALSE]
    /\ payerManager' = NoPayerManager
    /\ lastOp' = [kind |-> "ui"]
    /\ UNCHANGED <<activeTab, modalOpen, modalType, editItem, expenses, payers, storage,
                   filterStart, filterEnd, filterPayer, popoverOpen, clock, ops>>
    /\ UNCHANGED itineraryVars

\* new payer input onChange
SetNewPayer(text) == SetPayerManager([payerManager EXCEPT !.newPayer = text])

\* handleStartEdit, on a row that is not being edited
handleStartEdit(p) ==
    /\ includes(payers, p)
    /\ ~(payerManager.editing /\ payerManager.originalName = p)
    /\ SetPayerManager([payerManager EXCEPT !.editing = TRUE, !.originalName = p,
                                            !.newName = p])

\* the input of the row being edited, onChange
SetEditName(text) ==
    /\ payerManager.editing
    /\ SetPayerManager([payerManager EXCEPT !.newName = text])

\* App.savePayers(newList) and the render it causes.  ModalFormContent is a
\* component function that every render of App creates anew (it is defined in
\* App's body), so when App's state changes React unmounts the ExpenseForm under
\* it, with its overlay, and mounts a fresh one: the form state starts again from
\* its initialisers with the new registry.
savePayers(newList) ==
    /\ payers' = newList
    /\ storage' = [present |-> TRUE, value |-> JSONstringify(newList)]
    /\ filterPayer' = savePayersFilter(newList, filterPayer)
    /\ expenseForm' = mountExpenseForm(editItem, newList)
    /\ payerManager' = NoPayerManager
    /\ ops' = ops + 1

\* A button of the overlay has no type attribute and the overlay is rendered
\* inside the expense form's <form>, so a click on it that leaves the button in
\* the document submits the form: ExpenseForm.handleSubmit runs on the fields as
\* they are.  A click whose handler changes state removes the button (the row
\* switches its controls, or the form is mounted anew) and submits nothing.
implicitSubmit ==
    IF expenseFieldMissing(expenseForm)
    THEN UNCHANGED <<expenses, modalOpen, expenseForm, payerManager, clock, ops>>
    ELSE /\ ops < MaxOps
         /\ expenses' = handleExpenseSave(expenses, submittedExpense, editItem # Null)
         /\ modalOpen' = FALSE
         /\ expenseForm' = NoExpenseForm
         /\ payerManager' = NoPayerManager
         /\ clock' = IF editItem # Null THEN clock ELSE clock + 1
         /\ ops' = ops + 1

canAddAnything(newPayer, list) == TRUE

\* the condition of handleAddPayer
canAdd(newPayer, list) == newPayer # <<>> /\ ~includes(list, newPayer)

\* handleAddPayer, from the add button (disabled while the input is empty) or
\* from Enter in the input (which prevents the default action)
handleAddPayer(viaButton) ==
    /\ PayerManagerOpen
    /\ viaButton => payerManager.newPayer # <<>>
    /\ LET newPayer == payerManager.newPayer IN
       IF canAdd(newPayer, payers)
       THEN /\ ops < MaxOps
            /\ savePayers(Append(payers, newPayer))
            /\ lastOp' = [kind |-> "handleAddPayer", saved |-> TRUE, name |-> newPayer]
            /\ UNCHANGED <<expenses, modalOpen, clock>>
       ELSE /\ lastOp' = [kind |-> "handleAddPayer", saved |-> FALSE, name |-> newPayer]
            /\ UNCHANGED <<payers, storage, filterPayer>>
            /\ IF viaButton
               THEN implicitSubmit
               ELSE UNCHANGED <<expenses, modalOpen, expenseForm, payerManager, clock, ops>>
    /\ UNCHANGED <<activeTab, modalType, editItem, filterStart, filterEnd, popoverOpen>>
    /\ UNCHANGED itineraryVars

\* handleSaveEdit, from the check button of the row being edited or from Enter
\* in its input
handleSaveEdit(viaButton) ==
    /\ PayerManagerOpen
    /\ payerManager.editing
    /\ LET originalName == payerManager.originalName
           newName == payerManager.newName
           newPayerName == trim(newName)
       IN  IF newName = <<>> \/ newName = originalName
           THEN /\ payerManager' = [payerManager EXCEPT !.editing = FALSE,
                                        !.originalName = <<>>, !.newName = <<>>]
                /\ lastOp' = [kind |-> "handleSaveEdit", saved |-> FALSE,
                              originalName |-> originalName, newName |-> newName]
                /\ UNCHANGED <<payers, storage, filterPayer, expenseForm, ops,
                               expenses, modalOpen, clock>>
           ELSE IF newPayerName # <<>> /\ ~includes(payers, newPayerName)
           THEN /\ ops < MaxOps
                /\ savePayers(renamed(payers, originalName, newPayerName))
                /\ lastOp' = [kind |-> "handleSaveEdit", saved |-> TRUE,
                              originalName |-> originalName, newName |-> newName]
                /\ UNCHANGED <<expenses, modalOpen, clock>>
           ELSE /\ lastOp' = [kind |-> "handleSaveEdit", saved |-> FALSE,
                              originalName |-> originalName, newName |-> newName]
                /\ UNCHANGED <<payers, storage, filterPayer>>
                /\ IF viaButton
                   THEN implicitSubmit
                   ELSE UNCHANGED <<expenses, modalOpen, expenseForm, payerManager,
                                    clock, ops>>
    /\ UNCHANGED <<activeTab, modalType, editItem, filterStart, filterEnd, popoverOpen>>
    /\ UNCHANGED itineraryVars

\* a removal that also rewrote the records of the removed payer
handleDeletePayerCascading(target, confirmed) ==
    /\ PayerManagerOpen
    /\ includes(payers, target)
    /\ ~(payerManager.editing /\ payerManager.originalName = target)
    /\ IF confirmed
       THEN /\ ops < MaxOps
            /\ savePayers(withoutPayer(payers, target))
            /\ expenses' = [k \in DOMAIN expenses |->
                              IF expenses[k].payer = target
                              THEN [expenses[k] EXCEPT
                                       !.payer = firstOrEmpty(withoutPayer(payers, target))]
                              ELSE expenses[k]]
            /\ UNCHANGED <<modalOpen, clock>>
       ELSE /\ UNCHANGED <<payers, storage, filterPayer>>
            /\ implicitSubmit
    /\ lastOp' = [kind |-> "handleDeletePayer", confirmed |-> confirmed,
                  target |-> target, selected |-> expenseForm.payer,
                  filter |-> filterPayer]
    /\ UNCHANGED <<activeTab, modalType, editItem, filterStart, filterEnd, popoverOpen>>
    /\ UNCHANGED itineraryVars

\* ExpenseForm.handleDeletePayer behind window.confirm, from the delete button
\* of a row that is not being edited.  The setPayer of its last line goes to the
\* form that the render after savePayers unmounts.
handleDeletePayer(target, confirmed) ==
    /\ PayerManagerOpen
    /\ includes(payers, target)
    /\ ~(payerManager.editing /\ payerManager.originalName = target)
    /\ IF confirmed
       THEN /\ ops < MaxOps
            /\ savePayers(withoutPayer(payers, target))
            /\ UNCHANGED <<expenses, modalOpen, clock>>
       ELSE /\ UNCHANGED <<payers, storage, filterPayer>>
            /\ implicitSubmit
    /\ lastOp' = [kind |-> "handleDeletePayer", confirmed |-> confirmed,
                  target |-> target, selected |-> expenseForm.payer,
                  filter |-> filterPayer]
    /\ UNCHANGED <<activeTab, modalType, editItem, filterStart, filterEnd, popoverOpen>>
    /\ UNCHANGED itineraryVars

----------------------------------------------------------------------------
(* Geocoding: the lookup table and the steps of handleGeocode *)

\* SIMULATED_GEO_DATA, coordinates in 1/10000 degree
SIMULATED_GEO_DATA ==
    (<<"TaipeiStation">> :> [lat |-> 250478, lng |-> 1215170]) @@
    (<<"ShilinNightMarket">> :> [lat |-> 250878, lng |-> 1215241]) @@
    (<<"PalaceMuseum">> :> [lat |-> 251024, lng |-> 1215485]) @@
    (<<"Taipei101">> :> [lat |-> 250339, lng |-> 1215645]) @@
    (<<"TaoyuanAirport">> :> [lat |-> 250797, lng |-> 1212342]) @@
    (<<"Xinyi">> :> [lat |-> 250339, lng |-> 1215645]) @@
    (<<"TokyoStation">> :> [lat |-> 356812, lng |-> 1397671]) @@
    (<<"Shibuya">> :> [lat |-> 356591, lng |-> 1397031])

\* names that every object literal answers to through Object.prototype, with a
\* value that is neither null nor undefined
InheritedNames == {<<"constructor">>, <<"toString">>}

\* the lat and lng of a value that has no such properties: undefined
UndefinedCoord == -1

geocodeLocationAlwaysFails(locationName) ==
    [hit |-> FALSE, lat |-> NullCoord, lng |-> NullCoord]

\* what the promise of geocodeLocation(locationName) resolves to:
\* SIMULATED_GEO_DATA[locationName.trim()] || null; hit tells a truthy value
geocodeLocation(locationName) ==
    LET key == trim(locationName) IN
    IF key \in DOMAIN SIMULATED_GEO_DATA
    THEN [hit |-> TRUE, lat |-> SIMULATED_GEO_DATA[key].lat,
          lng |-> SIMULATED_GEO_DATA[key].lng]
    ELSE IF key \in InheritedNames
    THEN [hit |-> TRUE, lat |-> UndefinedCoord, lng |-> UndefinedCoord]
    ELSE [hit |-> FALSE, lat |-> NullCoord, lng |-> NullCoord]

\* the status line of the form calls lat.toFixed(4) when the status is 'found':
\* with lat undefined the render throws and React takes the whole App down
Crashed ==
    /\ modalOpen
    /\ modalType = "activity"
    /\ activityForm.geocodeStatus = "found"
    /\ activityForm.lat = UndefinedCoord

geocodeFrame ==
    /\ UNCHANGED <<itinerary, selectedItineraryDate, activeTab, modalOpen, modalType,
                   editItem, clock, ops>>
    /\ UNCHANGED ledgerVars

\* location input onChange: the text, and the status and coordinates cleared
SetActivityLocation(text) ==
    /\ ActivityFormOpen
    /\ activityForm' = [activityForm EXCEPT !.location = text, !.geocodeStatus = "null",
                                            !.lat = NullCoord, !.lng = NullCoord]
    /\ geocode' = IF geocode.phase \in {"attempt", "backoff"} /\ geocode.mounted
                  THEN [geocode EXCEPT !.edited = TRUE]
                  ELSE geocode
    /\ lastOp' = [kind |-> "ui"]
    /\ geocodeFrame

\* a search button that stays enabled while a search is running
searchDisabledWhenBlank(form) == trim(form.location) = <<>>

\* the disabled attribute of the search button: !location.trim() || isGeocoding
searchDisabled(form) == trim(form.location) = <<>> \/ form.isGeocoding

\* handleGeocode up to its first await; the search button is disabled while the
\* trimmed location is empty or a search is running
handleGeocode ==
    /\ ActivityFormOpen
    /\ ~searchDisabled(activityForm)
    /\ activityForm' = [activityForm EXCEPT !.isGeocoding = TRUE,
                                            !.geocodeStatus = "searching",
                                            !.lat = NullCoord, !.lng = NullCoord]
    /\ geocode' = [phase |-> "attempt", i |-> 0, delay |-> InitialDelay,
                   query |-> trim(activityForm.location), attempts |-> 1,
                   waits |-> <<>>, mounted |-> TRUE, edited |-> FALSE]
    /\ lastOp' = [kind |-> "handleGeocode"]
    /\ geocodeFrame

\* the promise of geocodeLocation resolves and handleGeocode runs on to its next
\* await or to its end
GeocodeResolve ==
    /\ geocode.phase = "attempt"
    /\ LET result == geocodeLocation(geocode.query) IN
       IF result.hit \/ ~(geocode.i + 1 < maxRetries)
       THEN /\ geocode' = [geocode EXCEPT !.phase = "done"]
            /\ activityForm' =
                  IF ~geocode.mounted THEN activityForm
                  ELSE IF result.hit
                  THEN [activityForm EXCEPT !.isGeocoding = FALSE, !.lat = result.lat,
                                            !.lng = result.lng, !.geocodeStatus = "found"]
                  ELSE [activityForm EXCEPT !.isGeocoding = FALSE,
                                            !.geocodeStatus = "not_found"]
            /\ lastOp' = [kind |-> "geocodeResolve", finished |-> TRUE]
       ELSE /\ geocode' = [geocode EXCEPT !.phase = "backoff",
                                          !.waits = Append(@, geocode.delay)]
            /\ UNCHANGED activityForm
            /\ lastOp' = [kind |-> "geocodeResolve", finished |-> FALSE]
    /\ geocodeFrame

nextDelayConstant(delay) == delay

\* delay *= 2
nextDelay(delay) == 2 * delay

\* the backoff timer fires: delay *= 2, i++, and the next geocodeLocation call
GeocodeBackoffDone ==
    /\ geocode.phase = "backoff"
    /\ geocode' = [geocode EXCEPT !.phase = "attempt", !.delay = nextDelay(@), !.i = @ + 1,
                                  !.attempts = @ + 1]
    /\ UNCHANGED activityForm
    /\ lastOp' = [kind |-> "geocodeBackoff"]
    /\ geocodeFrame

----------------------------------------------------------------------------
(* The itinerary specification: the itinerary and map tabs, the activity   *)
(* form with its location left as it is, saves and deletes.                *)

ItineraryTabs == {"itinerary", "map"}

NextItinerary ==
    \/ \E t \in ItineraryTabs : SetActiveTab(t)
    \/ \E d \in Dates : SelectItineraryDate(d)
    \/ FabClick
    \/ \E k \in DOMAIN displayed(itinerary, selectedItineraryDate) :
            handleEditActivity(displayed(itinerary, selectedItineraryDate)[k])
    \/ CloseModal
    \/ \E d \in Dates \cup {NoDate} : SetActivityDate(d)
    \/ \E t \in TimeInputs : SetActivityTime(t)
    \/ \E v \in DescInputs : SetActivityDesc(v)
    \/ ActivityHandleSubmit
    \/ \E confirmed \in BOOLEAN : ActivityDelete(confirmed)

SpecItinerary == Init /\ [][NextItinerary]_vars

----------------------------------------------------------------------------
(* The ledger specification: the expenses tab with its date filter and the
   expense form, without the payer filter and the payer management overlay *)

FilterDates == {D05, D06, D07}
ExpenseDates == {D05, D06}
FilledDesc == "Lunch"

\* the names of the registry
Names == {payers[k] : k \in DOMAIN payers}

NextLedger ==
    \/ SetActiveTab("expenses")
    \/ FabClick
    \/ CloseModal
    \/ TogglePopover
    \/ \E d \in FilterDates : RangeSelectDate(d)
    \/ ClearDateFilter
    \/ \E k \in DOMAIN expenses : OpenEditExpense(expenses[k])
    \/ SetExpenseAmount(FilledAmount)
    \/ SetExpenseDesc(FilledDesc)
    \/ \E d \in ExpenseDates : SetExpenseDate(d)
    \/ ExpenseHandleSubmit
    \/ \E confirmed \in BOOLEAN : ExpenseDelete(confirmed)

SpecLedger == Init /\ [][NextLedger]_vars

----------------------------------------------------------------------------
(* The registry specification: the payer management overlay, the form it is
   opened from and the payer filter *)

AddInputs == {<<>>, Jane, All}
EditInputs == {<<>>, <<" ">>, <<" ", "Jane">>, <<"Zoe">>}

\* the registry a previous visit left in localStorage
StoredRegistries == {NotStored, [present |-> TRUE, value |-> JSONstringify(<<John>>)]}

InitStored == \E stored \in StoredRegistries : InitFrom(stored)

NextPayers ==
    \/ SetActiveTab("expenses")
    \/ FabClick
    \/ CloseModal
    \/ SetFilterAll
    \/ \E p \in Names : SetFilterPayer(p)
    \/ \E k \in DOMAIN expenses : OpenEditExpense(expenses[k])
    \/ \E p \in Names : SetExpensePayer(p)
    \/ OpenPayerManager
    \/ ClosePayerManager
    \/ \E text \in AddInputs : SetNewPayer(text)
    \/ \E p \in Names : handleStartEdit(p)
    \/ \E text \in EditInputs : SetEditName(text)
    \/ \E viaButton \in BOOLEAN : handleAddPayer(viaButton)
    \/ \E viaButton \in BOOLEAN : handleSaveEdit(viaButton)
    \/ \E p \in Names, confirmed \in BOOLEAN : handleDeletePayer(p, confirmed)

SpecPayers == InitStored /\ [][NextPayers]_vars

----------------------------------------------------------------------------
(* Claims about the itinerary store *)

\* the places <<bucket, position>> of the itinerary days that hold the id
Places(days, id) ==
    {<<i, k>> \in (DOMAIN days) \X (1..6 + MaxOps) :
        k \in DOMAIN days[i].activities /\ days[i].activities[k].id = id}

\* the ids of all activities of the itinerary days
Ids(days) ==
    {days[i].activities[k].id : <<i, k>> \in
        {<<i, k>> \in (DOMAIN days) \X (1..6 + MaxOps) : k \in DOMAIN days[i].activities}}

RECURSIVE TotalActivities(_)
TotalActivities(days) ==
    IF days = <<>> THEN 0 ELSE Len(Head(days).activities) + TotalActivities(Tail(days))

\* how often the bucket of the date holds the id (0 without such a bucket)
CountInDay(days, id, date) ==
    Cardinality({<<i, k>> \in Places(days, id) : days[i].date = date})

\* C1: in every reachable state every activity id occurs in exactly one day
\* bucket and exactly once in it, and the activity a save was about is in the
\* store after the save.
C1_EveryIdInExactlyOneBucket ==
    /\ \A id \in Ids(itinerary) : Cardinality(Places(itinerary, id)) = 1
    /\ lastOp.kind = "handleActivitySave" => Cardinality(Places(itinerary, lastOp.id)) = 1

\* the step is handleActivitySave moving an activity of day D1's bucket to D2
IsMoveStep ==
    /\ lastOp'.kind = "handleActivitySave"
    /\ lastOp'.isEdit
    /\ lastOp'.originalDate # NoDate
    /\ lastOp'.originalDate # lastOp'.date
    /\ CountInDay(itinerary, lastOp'.id, lastOp'.originalDate) > 0

\* C2: a date move (isEdit, originalDate = D1, date = D2 # D1) of an activity
\* of D1's bucket leaves D1's bucket without the id (and absent if that was its
\* only entry), D2's bucket with exactly one activity of that id, and the total
\* number of activities unchanged.
C2_MoveKeepsOneCopyAndTotal ==
    [][IsMoveStep =>
        /\ CountInDay(itinerary', lastOp'.id, lastOp'.originalDate) = 0
        /\ (Len(itinerary[findIndex(itinerary, lastOp'.originalDate)].activities) = 1
                => findIndex(itinerary', lastOp'.originalDate) = 0)
        /\ CountInDay(itinerary', lastOp'.id, lastOp'.date) = 1
        /\ TotalActivities(itinerary') = TotalActivities(itinerary)]_vars

\* C3: in every reachable state the activities of every day bucket are in
\* non-decreasing order of their time.
C3_ActivitiesSortedByTime ==
    \A i \in DOMAIN itinerary :
        \A k \in DOMAIN itinerary[i].activities :
            k > 1 => localeCompare(itinerary[i].activities[k - 1].time,
                                   itinerary[i].activities[k].time) <= 0

\* a new 12:00 activity sits in the bucket of 2025-11-05 behind the 09:00 seed
\* entry and before the 19:00 seed entry
C3_Witness ==
    /\ lastOp.kind = "handleActivitySave"
    /\ ~lastOp.isEdit
    /\ findIndex(itinerary, D05) # 0
    /\ LET acts == itinerary[findIndex(itinerary, D05)].activities IN
       \E a, n, b \in DOMAIN acts :
            /\ a < n /\ n < b
            /\ acts[a].id = 1 /\ acts[a].time = <<9, 0>>
            /\ acts[n].id = lastOp.id /\ acts[n].time = <<12, 0>>
            /\ acts[b].id = 3 /\ acts[b].time = <<19, 0>>

\* C4: in every reachable state the day buckets are in strictly ascending date
\* order and no bucket is empty.
C4_DaysAscendingNoneEmpty ==
    /\ \A i \in DOMAIN itinerary :
            i > 1 => localeCompare(itinerary[i - 1].date, itinerary[i].date) < 0
    /\ \A i \in DOMAIN itinerary : Len(itinerary[i].activities) > 0

\* an activity was moved out of the bucket of 2025-11-04, its only entry, and
\* that bucket is gone, while the other buckets are still there
C4_Witness ==
    /\ lastOp.kind = "handleActivitySave"
    /\ lastOp.isEdit
    /\ lastOp.originalDate = D04
    /\ lastOp.date = D06
    /\ findIndex(itinerary, D04) = 0
    /\ Len(itinerary) = 2

----------------------------------------------------------------------------
(* Claims about the ledger's filters *)

\* a calendar date as a number that orders as the calendar does
DateNum(date) == date[1] * 10000 + date[2] * 100 + date[3]

\* start <= d <= end, an unset side imposing no bound
InRange(date, start, end) ==
    /\ (start = NoDate \/ DateNum(start) <= DateNum(date))
    /\ (end = NoDate \/ DateNum(date) <= DateNum(end))

\* the ledger positions whose record lies in the selected range
RangePositions == {k \in DOMAIN expenses : InRange(expenses[k].date, filterStart, filterEnd)}

\* the sum of the home-currency amounts at a set of ledger positions
RECURSIVE SumAt(_)
SumAt(positions) ==
    IF positions = {} THEN 0
    ELSE LET k == CHOOSE x \in positions : TRUE
         IN  expenses[k].amount + SumAt(positions \ {k})

\* C5: with the payer filter on the wildcard, the filtered list holds exactly
\* the records whose date d satisfies start <= d <= end (an unset start or end
\* imposing no bound on its side), in ledger order, and totalExpense is the sum
\* of the home-currency amounts of exactly those records.
C5_RangeFilterAndTotal ==
    filterPayer = All =>
        /\ Len(shownExpenses) = Cardinality(RangePositions)
        /\ \A k \in RangePositions :
              shownExpenses[Cardinality({j \in RangePositions : j <= k})] = expenses[k]
        /\ totalExpense(shownExpenses) = SumAt(RangePositions)

\* both ends of the range are set on a ledger that a save has changed, a record
\* dated on the end day is shown and a record outside the range is not
C5_Witness ==
    /\ filterPayer = All
    /\ filterStart # NoDate
    /\ filterEnd # NoDate
    /\ lastOp.kind = "ui"
    /\ expenses # initialExpenses
    /\ \E k \in DOMAIN shownExpenses : shownExpenses[k].date = filterEnd
    /\ Len(shownExpenses) < Len(expenses)

\* C6: for every name p of the payer registry, selecting p as the payer filter
\* shows exactly the ledger records whose payer field equals p; only the
\* wildcard chip shows the records of all payers.
C6_PayerChipShowsThatPayerOnly ==
    lastOp.kind = "setFilterPayer" =>
        shownExpenses = SelectSeq(expenses, LAMBDA e : e.payer = lastOp.chip)

----------------------------------------------------------------------------
(* Claims about the payer registry *)

\* C7: a confirmed payer removal leaves the expense ledger unchanged: every
\* record is still there with the same id and the same payer field, the
\* records of the removed payer included.
C7_RemovalLeavesLedger ==
    [][(lastOp'.kind = "handleDeletePayer" /\ lastOp'.confirmed) => expenses' = expenses]_vars

\* a confirmed removal of a payer who has a record in the ledger
C7_Witness ==
    /\ lastOp.kind = "handleDeletePayer"
    /\ lastOp.confirmed
    /\ ~includes(payers, lastOp.target)
    /\ \E k \in DOMAIN expenses : expenses[k].payer = lastOp.target

\* the text without the blanks at its two ends
Trimmed(text) ==
    LET inked == {k \in DOMAIN text : text[k] # " "}
    IN  IF inked = {} THEN <<>>
        ELSE SubSeq(text, CHOOSE k \in inked : \A j \in inked : k <= j,
                          CHOOSE k \in inked : \A j \in inked : j <= k)

\* C8: a rename whose new name, once trimmed, is a name already in the registry
\* leaves the registry and its persisted copy unchanged; so does a rename whose
\* new name is empty or equal to the original name.
C8_RenameToTakenIsNoOp ==
    [][(/\ lastOp'.kind = "handleSaveEdit"
        /\ \/ lastOp'.newName = <<>>
           \/ lastOp'.newName = lastOp'.originalName
           \/ includes(payers, Trimmed(lastOp'.newName)))
       => (payers' = payers /\ storage' = storage)]_vars

\* a rename to a padded name that, trimmed, another entry holds, after the
\* registry has been saved once
C8_Witness ==
    /\ lastOp.kind = "handleSaveEdit"
    /\ lastOp.newName # <<>>
    /\ lastOp.newName # Trimmed(lastOp.newName)
    /\ Trimmed(lastOp.newName) # lastOp.originalName
    /\ includes(payers, Trimmed(lastOp.newName))
    /\ storage.present

\* no name twice and no empty name
Unique(list) ==
    /\ \A i, j \in DOMAIN list : list[i] = list[j] => i = j
    /\ \A i \in DOMAIN list : list[i] # <<>>

\* C9: from a registry without duplicates, after any sequence of payer add,
\* rename and remove operations the registry never holds a name twice and never
\* holds the empty string; an add whose name is empty or already present leaves
\* the registry unchanged.
C9_RegistryUnique ==
    /\ []Unique(payers)
    /\ [][(/\ lastOp'.kind = "handleAddPayer"
           /\ (lastOp'.name = <<>> \/ includes(payers, lastOp'.name)))
          => (payers' = payers /\ storage' = storage)]_vars

\* an add of a name that is present, tried on a registry that an earlier add
\* has extended
C9_Witness ==
    /\ lastOp.kind = "handleAddPayer"
    /\ ~lastOp.saved
    /\ includes(payers, lastOp.name)
    /\ storage.present
    /\ Len(payers) > Len(DEFAULT_PAYERS)

----------------------------------------------------------------------------
(* Claims about the expense ledger *)

\* how many records of the list equal the record
Occurrences(list, r) == Cardinality({k \in DOMAIN list : list[k] = r})

\* the position of the record with the id, in a ledger that holds it once
PositionOf(list, id) == CHOOSE k \in DOMAIN list : list[k].id = id

\* C11: after an expense add on a ledger of valid dates the whole ledger is in
\* non-increasing date order, it holds exactly the previous records plus the
\* new one, and the new record sits after every record of the same date that
\* was there before and before every record of an earlier date.
C11_AddKeepsLedgerSortedDescending ==
    [][(lastOp'.kind = "handleExpenseSave" /\ ~lastOp'.isEdit) =>
          LET n == PositionOf(expenses', lastOp'.id) IN
          /\ \A i, j \in DOMAIN expenses' :
                i < j => DateNum(expenses'[i].date) >= DateNum(expenses'[j].date)
          /\ Len(expenses') = Len(expenses) + 1
          /\ \A k \in DOMAIN expenses :
                Occurrences(expenses', expenses[k]) = Occurrences(expenses, expenses[k])
          /\ Occurrences(expenses', expenses'[n]) = 1
          /\ \A k \in DOMAIN expenses' :
                /\ (k # n /\ expenses'[k].date = expenses'[n].date) => k < n
                /\ DateNum(expenses'[k].date) < DateNum(expenses'[n].date) => n < k]_vars

\* an add that landed in the middle: behind a record of its own date and ahead
\* of a record of an earlier date
C11_Witness ==
    /\ lastOp.kind = "handleExpenseSave"
    /\ ~lastOp.isEdit
    /\ LET n == PositionOf(expenses, lastOp.id) IN
       /\ \E k \in DOMAIN expenses : k < n /\ expenses[k].date = expenses[n].date
       /\ \E k \in DOMAIN expenses :
             k > n /\ DateNum(expenses[k].date) < DateNum(expenses[n].date)

----------------------------------------------------------------------------
(* The conversion specification: the expense form with its amount and currency
   inputs, and the records its submits store *)

\* '', 0, 0.47, 1.015, 1.019 and 1000
AmountInputs == {<<>>, <<0>>, <<470>>, <<1015>>, <<1019>>, <<1000000>>}

NextConvert ==
    \/ SetActiveTab("expenses")
    \/ FabClick
    \/ CloseModal
    \/ \E k \in DOMAIN expenses : OpenEditExpense(expenses[k])
    \/ \E a \in AmountInputs : SetExpenseAmount(a)
    \/ \E c \in CURRENCIES : SetExpenseCurrency(c)
    \/ SetExpenseDesc(FilledDesc)
    \/ ExpenseHandleSubmit

SpecConvert == Init /\ [][NextConvert]_vars

----------------------------------------------------------------------------
(* Claims about the conversion to the home currency *)

\* a * rate[c] rounded to two decimal places, in 1/100 TWD, for the amount of
\* m/1000 units: the product of the decimal numbers, a half rounding up
RoundedProduct(m, c) ==
    (m \div 1000) * EXCHANGE_RATES[c] + ((m % 1000) * EXCHANGE_RATES[c] + 500) \div 1000

\* C12: for every currency c of the fixed set and every entered amount a >= 0,
\* the home amount stored on the expense record equals a * rate[c] rounded to
\* two decimal places, and an amount that is not a number gives 0; 1000 JPY is
\* stored as 220.00.
C12_HomeAmountIsRoundedProduct ==
    /\ \A k \in DOMAIN expenses :
          expenses[k].amount = RoundedProduct(expenses[k].inputAmount,
                                              expenses[k].inputCurrency)
    /\ \A c \in CURRENCIES : twdAmount(<<>>, c) = 0
    /\ twdAmount(<<1000000>>, "JPY") = 22000

\* C13 as stated: the conversion of the home currency is the identity; the
\* stored home amount of a record entered in TWD equals its inputAmount.
C13_HomeCurrencyIsIdentity ==
    \A k \in DOMAIN expenses :
        expenses[k].inputCurrency = "TWD" => expenses[k].amount * 10 = expenses[k].inputAmount

\* C13: a record entered in TWD with at most two decimal places stores a home
\* amount equal to its inputAmount; with more decimal places the home amount is
\* a number of two decimal places at most 0.005 away from the inputAmount, and
\* so differs from it.
C13_HomeCurrencyIsIdentityToTwoPlaces ==
    \A k \in DOMAIN expenses :
        expenses[k].inputCurrency = "TWD" =>
            LET stored == expenses[k].amount * 10
                entered == expenses[k].inputAmount
            IN  IF entered % 10 = 0
                THEN stored = entered
                ELSE /\ stored # entered
                     /\ stored - entered <= 5
                     /\ entered - stored <= 5

\* the form has stored a TWD record of two decimal places and a TWD record of
\* three
C13_Witness ==
    /\ \E k \in DOMAIN expenses :
          /\ expenses[k].id >= NewId(0)
          /\ expenses[k].inputCurrency = "TWD"
          /\ expenses[k].inputAmount % 10 = 0
          /\ expenses[k].inputAmount % 1000 # 0
    /\ \E k \in DOMAIN expenses :
          /\ expenses[k].id >= NewId(0)
          /\ expenses[k].inputCurrency = "TWD"
          /\ expenses[k].inputAmount % 10 # 0

----------------------------------------------------------------------------
(* The geocoding specification: the activity form with its location input and
   search button, the pending search, and the saves of the form *)

\* blank, a padded key of the table, another key, a name the table does not
\* hold, and a name it inherits
LocationInputs ==
    {<<" ">>, <<" ", "ShilinNightMarket">>, <<"TokyoStation">>, <<"Nowhere">>,
     <<"constructor">>}

NextGeocode ==
    \/ ~Crashed /\ FabClick
    \/ /\ ~Crashed
       /\ \E k \in DOMAIN displayed(itinerary, selectedItineraryDate) :
               handleEditActivity(displayed(itinerary, selectedItineraryDate)[k])
    \/ ~Crashed /\ CloseModal
    \/ ~Crashed /\ SetActivityDesc(FilledDesc)
    \/ ~Crashed /\ \E text \in LocationInputs : SetActivityLocation(text)
    \/ ~Crashed /\ handleGeocode
    \/ GeocodeResolve
    \/ GeocodeBackoffDone
    \/ ~Crashed /\ ActivityHandleSubmit

SpecGeocode == Init /\ [][NextGeocode]_vars

----------------------------------------------------------------------------
(* Claims about geocoding *)

\* the step in which a call of handleGeocode runs to its end
GeocodeEnds == lastOp'.kind = "geocodeResolve" /\ lastOp'.finished

\* what the form shows after a search that found nothing
EndsNotFound ==
    geocode.mounted =>
        /\ activityForm'.geocodeStatus = "not_found"
        /\ ~activityForm'.isGeocoding
        /\ activityForm'.lat = NullCoord
        /\ activityForm'.lng = NullCoord

\* C14 as stated: a search for a text that is not a key of the table ends after
\* exactly 3 attempts and backoff waits of 200, 400 and 800 ms with status
\* not_found, isGeocoding false and no coordinates in the form.
C14_ThreeAttemptsThreeWaits ==
    [][GeocodeEnds /\ geocode.query \notin DOMAIN SIMULATED_GEO_DATA =>
          /\ geocode'.attempts = 3
          /\ geocode'.waits = <<200, 400, 800>>
          /\ EndsNotFound]_vars

\* C14 as the code has it: a search for a text for which the lookup yields
\* nothing ends after exactly 3 attempts and two backoff waits, of 200 and then
\* 400 ms (no wait follows the last attempt), with status not_found, isGeocoding
\* false and no coordinates in the form.  A text that is no key of the table but
\* a name every object inherits is found at the first attempt, without
\* coordinates.
C14_ThreeAttemptsTwoWaits ==
    [][GeocodeEnds /\ geocode.query \notin DOMAIN SIMULATED_GEO_DATA =>
          IF geocode.query \in InheritedNames
          THEN /\ geocode'.attempts = 1
               /\ geocode'.waits = <<>>
               /\ geocode.mounted =>
                     /\ activityForm'.geocodeStatus = "found"
                     /\ ~activityForm'.isGeocoding
                     /\ activityForm'.lat = UndefinedCoord
                     /\ activityForm'.lng = UndefinedCoord
          ELSE /\ geocode'.attempts = 3
               /\ geocode'.waits = <<200, 400>>
               /\ EndsNotFound]_vars

C14_Witness ==
    /\ lastOp.kind = "geocodeResolve"
    /\ lastOp.finished
    /\ geocode.phase = "done"
    /\ geocode.mounted
    /\ geocode.query = <<"Nowhere">>
    /\ geocode.attempts = 3
    /\ geocode.waits = <<200, 400>>
    /\ ActivityFormOpen
    /\ activityForm.geocodeStatus = "not_found"
    /\ ~activityForm.isGeocoding

\* C15: a search for a text whose trimmed form is a key of the table ends after
\* exactly one attempt and no backoff wait, with status found, isGeocoding false
\* and the form's lat/lng equal to the table entry of that key: (25.0878,
\* 121.5241) for the Shilin night market.
C15_KeyFoundAtFirstAttempt ==
    [][GeocodeEnds /\ geocode.query \in DOMAIN SIMULATED_GEO_DATA =>
          /\ geocode'.attempts = 1
          /\ geocode'.waits = <<>>
          /\ geocode.mounted =>
                /\ activityForm'.geocodeStatus = "found"
                /\ ~activityForm'.isGeocoding
                /\ activityForm'.lat = SIMULATED_GEO_DATA[geocode.query].lat
                /\ activityForm'.lng = SIMULATED_GEO_DATA[geocode.query].lng
                /\ geocode.query = <<"ShilinNightMarket">> =>
                      activityForm'.lat = 250878 /\ activityForm'.lng = 1215241]_vars

C15_Witness ==
    /\ lastOp.kind = "geocodeResolve"
    /\ lastOp.finished
    /\ geocode.phase = "done"
    /\ geocode.mounted
    /\ geocode.attempts = 1
    /\ ActivityFormOpen
    /\ activityForm.location = <<" ", "ShilinNightMarket">>
    /\ activityForm.geocodeStatus = "found"
    /\ activityForm.lat = 250878
    /\ activityForm.lng = 1215241

----------------------------------------------------------------------------
(* The expense form specification: the form with its payer chips, its submit
   and delete buttons and the payer management overlay over it *)

\* the name typed into the inputs of the overlay
NewName == <<"Zoe">>

NextExpenseForm ==
    \/ SetActiveTab("expenses")
    \/ FabClick
    \/ CloseModal
    \/ \E k \in DOMAIN expenses : OpenEditExpense(expenses[k])
    \/ SetExpenseAmount(FilledAmount)
    \/ SetExpenseDesc(FilledDesc)
    \/ \E p \in Names : SetExpensePayer(p)
    \/ OpenPayerManager
    \/ ClosePayerManager
    \/ SetNewPayer(NewName)
    \/ \E p \in Names : handleStartEdit(p)
    \/ SetEditName(NewName)
    \/ handleAddPayer(TRUE)
    \/ handleSaveEdit(TRUE)
    \/ \E p \in Names, confirmed \in BOOLEAN : handleDeletePayer(p, confirmed)
    \/ ExpenseHandleSubmit

SpecExpenseForm == InitStored /\ [][NextExpenseForm]_vars

----------------------------------------------------------------------------
(* Claims about the expense form *)

\* C16: every expense record that a step creates or replaces carries a payer
\* that is a member of the payer registry at the moment of that step, whatever
\* adds, renames and removes have made of the registry, also after the removal
\* of every payer.
C16_SubmittedPayerInRegistry ==
    [][\A k \in DOMAIN expenses' :
          (\A j \in DOMAIN expenses : expenses[j] # expenses'[k]) =>
              includes(payers, expenses'[k].payer)]_vars

----------------------------------------------------------------------------
(* The storage specification: visits that find localStorage empty, written by
   an earlier visit or damaged, the payer management overlay, and reloads *)

\* what a visit can find under the key 'payers': nothing, a registry written
\* by savePayers, the text null, the empty text, and a text that was cut off
StoredItems ==
    StoredRegistries \cup
    {[present |-> TRUE, value |-> <<"null">>],
     [present |-> TRUE, value |-> <<>>],
     [present |-> TRUE, value |-> <<"[", Quote, "John">>]}

InitAnyStored == \E stored \in StoredItems : InitFrom(stored)

\* names with characters that JSON escapes, and a padded name
StoredNames == {<<"Zoe", Quote>>, <<Backslash>>, <<" ", "Zoe">>}

NextStorage ==
    \/ SetActiveTab("expenses")
    \/ FabClick
    \/ CloseModal
    \/ OpenPayerManager
    \/ ClosePayerManager
    \/ \E text \in StoredNames : SetNewPayer(text)
    \/ \E p \in Names : handleStartEdit(p)
    \/ \E text \in StoredNames : SetEditName(text)
    \/ handleAddPayer(TRUE)
    \/ handleSaveEdit(TRUE)
    \/ \E p \in Names, confirmed \in BOOLEAN : handleDeletePayer(p, confirmed)
    \/ Reload

SpecStorage == InitAnyStored /\ [][NextStorage]_vars

\* C17: every step that changes the registry (add, rename, remove) writes
\* exactly the new list to the storage; a startup gives the registry that the
\* most recent such step wrote (the registry as it was before the page was
\* loaded again), and the default list of four when nothing is stored or the
\* stored text cannot be parsed.
C17_StartupLoadsLastSavedRegistry ==
    [][/\ payers' # payers =>
             storage' = [present |-> TRUE, value |-> JSONstringify(payers')]
       /\ lastOp'.kind = "reload" =>
             /\ payers' = payers
             /\ (~storage.present \/ ~JSONparse(storage.value).ok) =>
                   payers' = DEFAULT_PAYERS
             /\ Len(DEFAULT_PAYERS) = 4]_vars

C17_Witness ==
    /\ lastOp.kind = "reload"
    /\ ops > 0
    /\ storage.present
    /\ payers # DEFAULT_PAYERS
    /\ \E i \in DOMAIN payers : \E j \in DOMAIN payers[i] : payers[i][j] = Quote

\* the form holds coordinates: lat and lng are numbers
HoldsCoordinates(form) ==
    form.lat \notin {NullCoord, UndefinedCoord} /\ form.lng \notin {NullCoord, UndefinedCoord}

\* the coordinates of an open activity form are those of the table for the
\* form's trimmed location
CoordinatesOfLocation ==
    ActivityFormOpen /\ HoldsCoordinates(activityForm) =>
        /\ trim(activityForm.location) \in DOMAIN SIMULATED_GEO_DATA
        /\ activityForm.lat = SIMULATED_GEO_DATA[trim(activityForm.location)].lat
        /\ activityForm.lng = SIMULATED_GEO_DATA[trim(activityForm.location)].lng

\* C18: the result of a search during which the location text was edited is
\* discarded, its end leaves the form's lat and lng as they are; and whenever
\* the form holds coordinates they are the table's coordinates of the form's
\* current trimmed location text.
C18_StaleResultDiscarded ==
    [][/\ GeocodeEnds /\ geocode.mounted /\ geocode.edited =>
             /\ activityForm'.lat = activityForm.lat
             /\ activityForm'.lng = activityForm.lng
       /\ CoordinatesOfLocation']_vars

----------------------------------------------------------------------------
(* The deletion specification: both forms opened on existing and on new items,
   the payer management overlay, and every delete with its confirmation
   accepted or declined *)

NextDelete ==
    \/ \E t \in {"itinerary", "expenses"} : SetActiveTab(t)
    \/ FabClick
    \/ CloseModal
    \/ \E k \in DOMAIN displayed(itinerary, selectedItineraryDate) :
            handleEditActivity(displayed(itinerary, selectedItineraryDate)[k])
    \/ \E k \in DOMAIN expenses : OpenEditExpense(expenses[k])
    \/ SetExpenseAmount(FilledAmount)
    \/ SetExpenseDesc(FilledDesc)
    \/ OpenPayerManager
    \/ ClosePayerManager
    \/ \E confirmed \in BOOLEAN : ActivityDelete(confirmed)
    \/ \E confirmed \in BOOLEAN : ExpenseDelete(confirmed)
    \/ \E p \in Names, confirmed \in BOOLEAN : handleDeletePayer(p, confirmed)

SpecDelete == Init /\ [][NextDelete]_vars

\* the step of a delete whose confirmation was declined
DeclinedDelete ==
    /\ lastOp'.kind \in {"handleExpenseDelete", "handleActivityDelete", "handleDeletePayer"}
    /\ ~lastOp'.confirmed

\* the step of a delete of that kind whose confirmation was accepted
ConfirmedDelete(kind) == lastOp'.kind = kind /\ lastOp'.confirmed

\* C20: a delete whose confirmation is declined leaves the ledger, the
\* itinerary, the registry, its persisted copy and the modal-open state
\* unchanged; an expense record, an activity or a payer disappears only in the
\* step of a delete whose confirmation was accepted.
C20_NoDeleteWithoutConfirmation ==
    [][/\ DeclinedDelete => UNCHANGED <<expenses, itinerary, payers, storage, modalOpen>>
       /\ (\E j \in DOMAIN expenses :
              \A k \in DOMAIN expenses' : expenses'[k].id # expenses[j].id)
             => ConfirmedDelete("handleExpenseDelete")
       /\ Ids(itinerary') # Ids(itinerary) /\ Ids(itinerary') \subseteq Ids(itinerary)
             => ConfirmedDelete("handleActivityDelete")
       /\ Len(payers') < Len(payers) => ConfirmedDelete("handleDeletePayer")]_vars

----------------------------------------------------------------------------
(* The submission specification: both forms, new and on existing items, with
   their required fields filled or emptied, their submits, and the clicks in
   the payer management overlay that submit the expense form *)

NextSubmit ==
    \/ \E t \in {"itinerary", "expenses"} : SetActiveTab(t)
    \/ FabClick
    \/ CloseModal
    \/ \E k \in DOMAIN displayed(itinerary, selectedItineraryDate) :
            handleEditActivity(displayed(itinerary, selectedItineraryDate)[k])
    \/ \E k \in DOMAIN expenses : OpenEditExpense(expenses[k])
    \/ \E d \in {NoDate, D06} : SetActivityDate(d)
    \/ \E t \in TimeInputs : SetActivityTime(t)
    \/ \E v \in DescInputs : SetActivityDesc(v)
    \/ \E a \in {<<>>, FilledAmount} : SetExpenseAmount(a)
    \/ \E v \in DescInputs : SetExpenseDesc(v)
    \/ OpenPayerManager
    \/ ClosePayerManager
    \/ \E p \in Names, confirmed \in BOOLEAN : handleDeletePayer(p, confirmed)
    \/ ActivityHandleSubmit
    \/ ExpenseHandleSubmit

SpecSubmit == Init /\ [][NextSubmit]_vars

----------------------------------------------------------------------------
(* Claims about the submits *)

\* the steps in which the expense form is submitted, by its submit button or by
\* a button of the overlay
ExpenseSubmitStep ==
    \/ lastOp'.kind \in {"expenseSubmitBlocked", "handleExpenseSave"}
    \/ lastOp'.kind = "handleDeletePayer" /\ ~lastOp'.confirmed

ActivitySubmitStep == lastOp'.kind \in {"activitySubmitBlocked", "handleActivitySave"}

\* C21: a submit of the expense form with an empty amount or an empty
\* description leaves the ledger unchanged and the modal open; a submit of the
\* activity form with an empty description, date or time leaves the itinerary,
\* the selected itinerary date and the active tab unchanged and the modal open.
C21_EmptyFieldBlocksSubmit ==
    [][/\ (/\ ExpenseFormOpen
           /\ expenseForm.amount = <<>> \/ expenseForm.desc = ""
           /\ ExpenseSubmitStep)
          => expenses' = expenses /\ modalOpen'
       /\ (/\ ActivityFormOpen
           /\ activityForm.desc = "" \/ activityForm.date = NoDate
                                     \/ activityForm.time = NoTime
           /\ ActivitySubmitStep)
          => /\ UNCHANGED <<itinerary, selectedItineraryDate, activeTab>>
             /\ modalOpen']_vars

\* a blocked submit of an expense form whose only empty field is the description
C21_Witness ==
    /\ lastOp.kind = "expenseSubmitBlocked"
    /\ ExpenseFormOpen
    /\ expenseForm.amount # <<>>
    /\ expenseForm.desc = ""
    /\ expenses = initialExpenses

----------------------------------------------------------------------------
(* The filter specification: the date range calendar and the payer chips of
   the expenses tab, and the registry changes made in the overlay of the form *)

NextFilter ==
    \/ SetActiveTab("expenses")
    \/ TogglePopover
    \/ \E d \in FilterDates : RangeSelectDate(d)
    \/ ClearDateFilter
    \/ SetFilterAll
    \/ \E p \in Names : SetFilterPayer(p)
    \/ FabClick
    \/ CloseModal
    \/ OpenPayerManager
    \/ ClosePayerManager
    \/ \E text \in {NewName, All} : SetNewPayer(text)
    \/ \E p \in Names : handleStartEdit(p)
    \/ SetEditName(NewName)
    \/ handleAddPayer(TRUE)
    \/ handleSaveEdit(TRUE)
    \/ \E p \in Names, confirmed \in BOOLEAN : handleDeletePayer(p, confirmed)

SpecFilter == Init /\ [][NextFilter]_vars

\* C22: in every reachable state the payer filter is the wildcard or a name of
\* the registry, also after the selected payer was renamed or removed, and the
\* date range has an end only when it has a start, with start <= end.
C22_FilterWellFormed ==
    /\ filterPayer = All \/ includes(payers, filterPayer)
    /\ filterEnd # NoDate =>
          /\ filterStart # NoDate
          /\ DateNum(filterStart) <= DateNum(filterEnd)

\* the payer that the filter selected has just been removed, with a date range
\* of two different days set
C22_Witness ==
    /\ lastOp.kind = "handleDeletePayer"
    /\ lastOp.confirmed
    /\ lastOp.filter = lastOp.target
    /\ lastOp.target # All
    /\ filterPayer = All
    /\ filterEnd # NoDate
    /\ filterStart # filterEnd

----------------------------------------------------------------------------
(* The edit specification: expense records opened for edit and saved, with no
   payer chip of the form ever clicked, between changes of the registry *)

NextEdit ==
    \/ SetActiveTab("expenses")
    \/ CloseModal
    \/ \E k \in DOMAIN expenses : OpenEditExpense(expenses[k])
    \/ SetExpenseDesc(FilledDesc)
    \/ OpenPayerManager
    \/ ClosePayerManager
    \/ SetNewPayer(NewName)
    \/ \E p \in Names : handleStartEdit(p)
    \/ SetEditName(NewName)
    \/ handleAddPayer(TRUE)
    \/ handleSaveEdit(TRUE)
    \/ \E p \in Names, confirmed \in BOOLEAN : handleDeletePayer(p, confirmed)
    \/ ExpenseHandleSubmit

SpecEdit == InitStored /\ [][NextEdit]_vars

\* the step in which the form of an existing record is submitted and saved
EditSaveStep ==
    /\ ExpenseFormOpen
    /\ editItem # Null
    /\ ~modalOpen'
    /\ lastOp'.kind \in {"handleExpenseSave", "handleDeletePayer", "handleAddPayer",
                         "handleSaveEdit"}

\* the payer fields of the record with that id before and after the step
PayerBefore(id) == (CHOOSE e \in {expenses[k] : k \in DOMAIN expenses} : e.id = id).payer
PayerAfter(id) == (CHOOSE e \in {expenses'[k] : k \in DOMAIN expenses'} : e.id = id).payer

\* C23 as stated: saving an edited record without a click on a payer chip
\* leaves the record's payer field unchanged, also when that payer has been
\* renamed or removed from the registry.
C23_EditKeepsPayer ==
    [][EditSaveStep => PayerAfter(editItem.id) = PayerBefore(editItem.id)]_vars

\* C23 as the code has it: saving an edited record without a click on a payer
\* chip leaves the record's payer field unchanged when that payer is in the
\* registry; when it is not (renamed or removed), the record gets the first
\* name of the registry, or the empty name when the registry is empty.
C23_EditKeepsRegisteredPayer ==
    [][EditSaveStep =>
          PayerAfter(editItem.id) =
              IF includes(payers, PayerBefore(editItem.id))
              THEN PayerBefore(editItem.id)
              ELSE firstOrEmpty(payers)]_vars

\* a saved edit of the first initial record, whose payer is not in the
\* registry: the record now names the first payer of the registry
C23_Witness ==
    /\ lastOp.kind = "handleExpenseSave"
    /\ lastOp.isEdit
    /\ ~includes(payers, Me)
    /\ payers # <<>>
    /\ \E k \in DOMAIN expenses :
          /\ expenses[k].id = lastOp.id
          /\ initialExpenses[1].id = lastOp.id
          /\ initialExpenses[1].payer = Me
          /\ expenses[k].payer = payers[1]

----------------------------------------------------------------------------
(* Claims about the order of the ledger *)

\* C24: from the first expense add onwards (in the ledger specification only an
\* add of an expense reads the clock), the ledger is in non-increasing date
\* order after every ledger operation: add, update by id with any new date,
\* remove.
C24_LedgerAlwaysNewestFirst ==
    clock > 0 =>
        \A i, j \in DOMAIN expenses :
            i < j => DateNum(expenses[i].date) >= DateNum(expenses[j].date)

\* C25: in every reachable state of an activity form, whatever the interleaving
\* of location edits, search starts and search completions, the status found
\* implies that lat and lng are both numbers, so that the status line, which
\* calls lat.toFixed and lng.toFixed, renders.
C25_FoundImpliesCoordinates ==
    (ActivityFormOpen /\ activityForm.geocodeStatus = "found") =>
        HoldsCoordinates(activityForm)

\* a search of the form that is open is pending: in an attempt or a backoff wait
SearchPending == geocode.mounted /\ geocode.phase \in {"attempt", "backoff"}

\* C26: a form has at most one search pending: a search starts only when
\* isGeocoding is false and the trimmed location is not empty, never while a
\* search of that form is pending; and isGeocoding is true from the start of a
\* search through all its attempts and backoff waits, and false once its final
\* result is recorded.
C26_OneSearchPerForm ==
    [][/\ lastOp'.kind = "handleGeocode" =>
             /\ ~activityForm.isGeocoding
             /\ trim(activityForm.location) # <<>>
             /\ ~SearchPending
             /\ SearchPending'
       /\ SearchPending' => ActivityFormOpen' /\ activityForm'.isGeocoding
       /\ (ActivityFormOpen' /\ activityForm'.isGeocoding) => SearchPending'
       /\ (lastOp'.kind = "geocodeResolve" /\ lastOp'.finished /\ geocode.mounted) =>
             ~activityForm'.isGeocoding]_vars

\* the third attempt of a search is pending, after both backoff waits and an
\* edit of the location, and the form still shows the search as running
C26_Witness ==
    /\ SearchPending
    /\ geocode.phase = "attempt"
    /\ geocode.attempts = 3
    /\ geocode.waits = <<200, 400>>
    /\ geocode.edited
    /\ ActivityFormOpen
    /\ activityForm.isGeocoding

====
